---------------------------- MODULE Spec2Model ----------------------------
(***************************************************************************)
(* A model of the asscheck QA pipeline (projects/asscheck/pipeline): the   *)
(* Stage-1 check engines, the remediation engine and the report status     *)
(* aggregator.                                                             *)
(*                                                                         *)
(* Vocabulary.  pipeline/schema.py names the status enums CheckStatus,     *)
(* StageStatus and OverallStatus, the check value measured_value and the   *)
(* flag list review_flags.  report_builder.py and texture.py still use the *)
(* earlier spelling (Status, value, flags) of the same things.  All enums  *)
(* are str-valued, so a status is modelled by its string value, and the    *)
(* model uses the schema.py field names throughout.                        *)
(***************************************************************************)
EXTENDS Integers, Sequences, FiniteSets, TLC

VARIABLES
    builder_stages,   \* ReportBuilder._stages
    report,           \* the QaReport returned by the last finalize(), or NoReport
    stage_ctx,        \* a Stage-1 engine: the Blender context handed in
    stage_config,     \* a Stage-1 engine: the config handed in
    stage_result,     \* a Stage-1 engine: the StageResult returned, or NoResult
    skinned_read,     \* check_armature: whether context.skinned_meshes() was called
    stage_perf,       \* check_scene: the PerformanceEstimates returned, or NoPerf
    rem_scene,        \* run_remediation: the Blender scene behind the context
    rem_config,       \* run_remediation: the RemediationConfig handed in
    rem_stage1,       \* run_remediation: the stage1_results of the last call
    rem_before,       \* run_remediation: the scene as the last call found it
    rem_calls,        \* run_remediation: the mutation calls the last call made
    rem_result,       \* run_remediation: the StageResult returned, or NoResult
    rem_runs,         \* run_remediation: how often it has run on this scene
    run_pc,           \* run_checks: the statement to execute next, or "none"
    run_args,         \* run_checks: the contexts and configs handed in
    run_locals,       \* run_checks: the six results and stage1_results
    run_return,       \* run_checks: the value returned, or NoReturn
    ser_report,       \* schema.py: a QaReport, or None
    ser_dict,         \* schema.py: what to_dict returned for it, or None
    ser_restored,     \* schema.py: what from_dict returned for that, or None
    intake_issued,    \* intake.py: the UUIDs uuid.uuid4() has returned so far
    intake_reports,   \* intake.py: the reports run_intake has returned, in order
    intake_configs,   \* intake.py: the configs of those calls, in order
    pbr_input,        \* pbr.py: a context and config check_pbr is called on repeatedly
    pbr_results,      \* pbr.py: the StageResults of those calls, in order
    cyc_tree,         \* blender_tests/tests.py: a material's node tree, or NoTree
    cyc_call,         \* blender_tests/tests.py: the call of _detect_cycles on it, or NoCall
    exp_metadata,     \* export.py: asset_id and category held by the ReportBuilder
    exp_files,        \* export.py: the files the last run_export wrote or copied
    exp_return,       \* export.py: what the last run_export returned, or NoExport
    uv_tris,          \* uv.py: the UV triangles of the asset, in mesh order
    uv_call           \* uv.py: the last call of an overlap function, or NoCall

aggVars == <<builder_stages, report>>
stageVars == <<stage_ctx, stage_config, stage_result, skinned_read, stage_perf>>

remVars == <<rem_scene, rem_config, rem_stage1, rem_before, rem_calls, rem_result, rem_runs>>

uvVars == <<uv_tris, uv_call>>

\* The state of the parts other than the aggregator, a Stage-1 engine call and
\* a remediation run.
runVars == <<run_pc, run_args, run_locals, run_return>>
serVars == <<ser_report, ser_dict, ser_restored>>
intakeVars == <<intake_issued, intake_reports, intake_configs>>
pbrVars == <<pbr_input, pbr_results>>
cycVars == <<cyc_tree, cyc_call>>
expVars == <<exp_metadata, exp_files, exp_return>>
toolVars == <<cycVars, expVars>>
extVars == <<uvVars, runVars, serVars, intakeVars, pbrVars, toolVars>>

vars == <<aggVars, stageVars, remVars, extVars>>

(***************************************************************************)
(* Generic helpers                                                         *)
(***************************************************************************)
Range(s) == {s[i] : i \in DOMAIN s}

RECURSIVE SeqsUpTo(_, _)
SeqsUpTo(S, n) ==
    IF n = 0 THEN {<<>>}
    ELSE LET shorter == SeqsUpTo(S, n - 1)
         IN  shorter \cup {Append(q, x) : q \in {r \in shorter : Len(r) = n - 1}, x \in S}

(***************************************************************************)
(* pipeline/schema.py                                                      *)
(***************************************************************************)
OverallStatus == {"PASS", "PASS_WITH_FIXES", "NEEDS_REVIEW", "FAIL"}
StageStatus == {"PASS", "FAIL", "SKIPPED"}
CheckStatus == {"PASS", "FAIL", "WARNING", "SKIPPED"}
Severity == {"ERROR", "WARNING", "INFO"}

CheckResult(name, status, measured_value) ==
    [name |-> name, status |-> status, measured_value |-> measured_value]

FixEntry(action, target, before_value, after_value) ==
    [action |-> action, target |-> target,
     before_value |-> before_value, after_value |-> after_value]

ReviewFlag(issue, severity) == [issue |-> issue, severity |-> severity]

StageResult(name, status, checks, fixes, review_flags) ==
    [name |-> name, status |-> status, checks |-> checks,
     fixes |-> fixes, review_flags |-> review_flags]

NoReport == [overall_status |-> "none", stages |-> <<>>]
NoResult == StageResult("none", "none", <<>>, <<>>, <<>>)

\* No Stage-1 engine has been called (a pipeline run calls each engine once,
\* on a fresh context).
NoContext == [none |-> TRUE]
NoConfig == [none |-> TRUE]
NoPerf == [none |-> TRUE]
StageIdle ==
    /\ stage_ctx = NoContext
    /\ stage_config = NoConfig
    /\ stage_result = NoResult
    /\ skinned_read = FALSE
    /\ stage_perf = NoPerf

(***************************************************************************)
(* pipeline/report_builder.py                                              *)
(***************************************************************************)
\* Mutants of _compute_status: the precedence order changed.
compute_status_review_first(stages) ==
    IF \E i \in DOMAIN stages : stages[i].review_flags # <<>> THEN "NEEDS_REVIEW"
    ELSE IF \E i \in DOMAIN stages : stages[i].status = "FAIL" THEN "FAIL"
    ELSE IF \E i \in DOMAIN stages : stages[i].fixes # <<>> THEN "PASS_WITH_FIXES"
    ELSE "PASS"

compute_status_fix_first(stages) ==
    IF \E i \in DOMAIN stages : stages[i].status = "FAIL" THEN "FAIL"
    ELSE IF \E i \in DOMAIN stages : stages[i].fixes # <<>> THEN "PASS_WITH_FIXES"
    ELSE IF \E i \in DOMAIN stages : stages[i].review_flags # <<>> THEN "NEEDS_REVIEW"
    ELSE "PASS"

compute_status_skipped_blocks(stages) ==
    IF \E i \in DOMAIN stages : stages[i].status # "PASS" THEN "FAIL"
    ELSE IF \E i \in DOMAIN stages : stages[i].review_flags # <<>> THEN "NEEDS_REVIEW"
    ELSE IF \E i \in DOMAIN stages : stages[i].fixes # <<>> THEN "PASS_WITH_FIXES"
    ELSE "PASS"

\* ReportBuilder._compute_status
_compute_status(stages) ==
    IF \E i \in DOMAIN stages : stages[i].status = "FAIL" THEN "FAIL"
    ELSE IF \E i \in DOMAIN stages : stages[i].review_flags # <<>> THEN "NEEDS_REVIEW"
    ELSE IF \E i \in DOMAIN stages : stages[i].fixes # <<>> THEN "PASS_WITH_FIXES"
    ELSE "PASS"

\* Bound on the number of stages handed to one ReportBuilder.
MaxStages == 3

\* The stages a caller may hand to add_stage: every stage status, with and
\* without fixes and review flags.
SampleFix == FixEntry("merge_by_distance", "mesh", 10, 8)
SampleFlag == ReviewFlag("geometry:non_manifold", "ERROR")
SampleStages ==
    {StageResult(n, st, <<>>, fx, fl) :
        n \in {"geometry", "remediation"}, st \in StageStatus,
        fx \in {<<>>, <<SampleFix>>}, fl \in {<<>>, <<SampleFlag>>}}

\* ReportBuilder.__init__
AggInit ==
    /\ builder_stages = <<>>
    /\ report = NoReport

\* ReportBuilder.add_stage
add_stage(stage) ==
    /\ Len(builder_stages) < MaxStages
    /\ builder_stages' = Append(builder_stages, stage)
    /\ UNCHANGED report
    /\ UNCHANGED <<stageVars, remVars, extVars>>

\* ReportBuilder.finalize
finalize ==
    /\ report' = [overall_status |-> _compute_status(builder_stages),
                  stages |-> builder_stages]
    /\ UNCHANGED builder_stages
    /\ UNCHANGED <<stageVars, remVars, extVars>>

AggNext ==
    \/ \E stage \in SampleStages : add_stage(stage)
    \/ finalize

(***************************************************************************)
(* pipeline/stage5/summary.py                                              *)
(***************************************************************************)
\* Bound on the number of review packages written for one finalized report.
MaxPackages == 1

\* The stage write_review_package adds to the report.
VisualVerification ==
    StageResult("visual_verification", "PASS", <<>>, <<>>,
                <<ReviewFlag("scale_verification", "INFO")>>)

\* write_review_package: the files it copies and the HTML it writes leave the
\* report alone; the report, the copy of the builder's stages that finalize
\* returned, gets the stage appended in place and keeps its overall_status.
write_review_package ==
    /\ report # NoReport
    /\ Len(report.stages) < MaxStages + MaxPackages
    /\ report' = [report EXCEPT !.stages = Append(@, VisualVerification)]
    /\ UNCHANGED builder_stages
    /\ UNCHANGED <<stageVars, remVars, extVars>>

ReviewNext ==
    \/ AggNext
    \/ write_review_package

(***************************************************************************)
(* pipeline/armature.py                                                    *)
(*                                                                         *)
(* A bone is [name, parent] with parent = 0 for None and otherwise the     *)
(* position of the parent bone in its armature.  A weight is an exact      *)
(* decimal counted in units of 1e-7, so that 1.0 is WeightOne; the check's *)
(* comparisons are those of the source on these values.  A naming pattern  *)
(* is modelled by the set of bone names that re.match accepts.             *)
(***************************************************************************)
WeightOne == 10000000      \* 1.0
ZeroWeightEps == 10        \* 1e-6
NormTolerance == 10000     \* 0.001

NoPattern == "None"
BonePattern == "^[A-Za-z_][A-Za-z0-9_]*$"
PatternMatches(pattern, name) ==
    pattern = BonePattern /\ name \in {"root", "child", "orphan"}

RECURSIVE SumSeq(_)
SumSeq(s) == IF s = <<>> THEN 0 ELSE s[1] + SumSeq(Tail(s))

RECURSIVE GCD(_, _)
GCD(a, b) == IF b = 0 THEN a ELSE GCD(b, a % b)

RECURSIVE ProdSeq(_)
ProdSeq(s) == IF s = <<>> THEN 1 ELSE s[1] * ProdSeq(Tail(s))

Abs(x) == IF x < 0 THEN -x ELSE x

\* The concatenation of a sequence of sequences, in order.
RECURSIVE Flatten(_)
Flatten(ss) == IF ss = <<>> THEN <<>> ELSE ss[1] \o Flatten(Tail(ss))

_check_armature_present(armatures, config) ==
    LET present == Len(armatures) > 0
        required == config.category \in config.categories_requiring_armature
    IN  IF ~present /\ required
        THEN CheckResult("armature_present", "FAIL", 0)
        ELSE CheckResult("armature_present", "PASS", Len(armatures))

_check_bone_count(armatures, config) ==
    LET total == SumSeq([i \in DOMAIN armatures |-> Len(armatures[i])])
    IN  CheckResult("bone_count",
                    IF total > config.max_bones THEN "FAIL" ELSE "PASS", total)

_check_bone_naming(armatures, config) ==
    IF config.bone_naming_pattern = NoPattern
    THEN CheckResult("bone_naming", "SKIPPED", [violations |-> <<>>, count |-> 0])
    ELSE LET Bad(bone) == ~PatternMatches(config.bone_naming_pattern, bone.name)
             bad == SelectSeq(Flatten(armatures), Bad)
             violations == [i \in DOMAIN bad |-> bad[i].name]
             count == Len(violations)
         IN  CheckResult("bone_naming", IF count > 0 THEN "FAIL" ELSE "PASS",
                         [violations |-> violations, count |-> count])

\* Mutant of _check_vertex_weights: the zero-weight vertex is also tested for
\* normalisation (the else branch lost).
check_vertex_weights_no_else(skinned_meshes, config) ==
    LET verts == Flatten(skinned_meshes)
        IsZero(w) == SumSeq(w) < ZeroWeightEps
        IsExcess(w) == ~IsZero(w) /\ Len(w) > config.max_influences_per_vertex
        IsUnnorm(w) == Abs(SumSeq(w) - WeightOne) > NormTolerance
        measured == [zero_weight_count |-> Cardinality({i \in DOMAIN verts : IsZero(verts[i])}),
                     excess_influences_count |-> Cardinality({i \in DOMAIN verts : IsExcess(verts[i])}),
                     unnormalized_count |-> Cardinality({i \in DOMAIN verts : IsUnnorm(verts[i])})]
        has_violation == \/ measured.zero_weight_count > 0
                         \/ measured.excess_influences_count > 0
                         \/ measured.unnormalized_count > 0
    IN  CheckResult("vertex_weights", IF has_violation THEN "FAIL" ELSE "PASS", measured)

_check_vertex_weights(skinned_meshes, config) ==
    LET verts == Flatten(skinned_meshes)
        IsZero(w) == SumSeq(w) < ZeroWeightEps
        IsExcess(w) == ~IsZero(w) /\ Len(w) > config.max_influences_per_vertex
        IsUnnorm(w) == ~IsZero(w) /\ Abs(SumSeq(w) - WeightOne) > NormTolerance
        measured == [zero_weight_count |-> Cardinality({i \in DOMAIN verts : IsZero(verts[i])}),
                     excess_influences_count |-> Cardinality({i \in DOMAIN verts : IsExcess(verts[i])}),
                     unnormalized_count |-> Cardinality({i \in DOMAIN verts : IsUnnorm(verts[i])})]
        has_violation == \/ measured.zero_weight_count > 0
                         \/ measured.excess_influences_count > 0
                         \/ measured.unnormalized_count > 0
    IN  CheckResult("vertex_weights", IF has_violation THEN "FAIL" ELSE "PASS", measured)

\* Mutant of _check_bone_hierarchy: one root is allowed in the whole scene
\* rather than one in each armature.
check_bone_hierarchy_one_root_in_all(armatures) ==
    LET IsRoot(b) == b.parent = 0
        RootCount(arm) == Cardinality({i \in DOMAIN arm : IsRoot(arm[i])})
        total_root_count == SumSeq([i \in DOMAIN armatures |-> RootCount(armatures[i])])
        total_orphan_count == IF total_root_count > 1 THEN total_root_count - 1 ELSE 0
    IN  CheckResult("bone_hierarchy",
                    IF total_orphan_count > 0 THEN "FAIL" ELSE "PASS",
                    [root_count |-> total_root_count,
                     orphan_count |-> total_orphan_count])

_check_bone_hierarchy(armatures) ==
    LET IsRoot(b) == b.parent = 0
        RootCount(arm) == Cardinality({i \in DOMAIN arm : IsRoot(arm[i])})
        total_root_count == SumSeq([i \in DOMAIN armatures |-> RootCount(armatures[i])])
        total_orphan_count ==
            SumSeq([i \in DOMAIN armatures |->
                      IF RootCount(armatures[i]) > 1
                      THEN RootCount(armatures[i]) - 1 ELSE 0])
    IN  CheckResult("bone_hierarchy",
                    IF total_orphan_count > 0 THEN "FAIL" ELSE "PASS",
                    [root_count |-> total_root_count,
                     orphan_count |-> total_orphan_count])

\* Mutant of StageStatusOf: a WARNING check fails the stage too.
StageStatusOfWarningFails(checks) ==
    IF \E i \in DOMAIN checks : checks[i].status \in {"FAIL", "WARNING"}
    THEN "FAIL" ELSE "PASS"

\* stage_status = FAIL if any(c.status == FAIL for c in checks) else PASS
StageStatusOf(checks) ==
    IF \E i \in DOMAIN checks : checks[i].status = "FAIL" THEN "FAIL" ELSE "PASS"

\* Mutant of ArmatureEarlyExit: the category test forgotten.
ArmatureEarlyExitAnyCategory(armatures, config) ==
    armatures = <<>>

\* The early-exit test of check_armature.
ArmatureEarlyExit(armatures, config) ==
    armatures = <<>> /\ config.category \notin config.categories_requiring_armature

\* The value check_armature returns.
check_armature_result(context, config) ==
    LET armatures == context.armatures
    IN  IF ArmatureEarlyExit(armatures, config)
        THEN StageResult("armature", "SKIPPED",
                         <<CheckResult("armature_present", "SKIPPED", 0)>>, <<>>, <<>>)
        ELSE LET checks == <<_check_armature_present(armatures, config),
                             _check_bone_count(armatures, config),
                             _check_bone_naming(armatures, config),
                             _check_vertex_weights(context.skinned_meshes, config),
                             _check_bone_hierarchy(armatures)>>
             IN  StageResult("armature", StageStatusOf(checks), checks, <<>>, <<>>)

\* Bounds of the armature inputs.
MaxArmatures == 2
MaxSkinnedVerts == 2

Bone(name, parent) == [name |-> name, parent |-> parent]
ArmatureSamples ==
    { <<>>,
      <<Bone("root", 0)>>,
      <<Bone("root", 0), Bone("child", 1)>>,
      <<Bone("root", 0), Bone("bone:one", 0)>>,
      <<Bone("root", 0), Bone("child", 1), Bone("orphan", 0)>>,
      <<Bone("bone two", 0), Bone("child", 1), Bone("child", 2)>> }

\* Per-vertex weight lists: none, negligible, normalised, at and beyond the
\* tolerance, and more influences than any configured budget.
VertexSamples ==
    { <<>>,
      <<4>>,
      <<6000000, 4000000>>,
      <<4000000, 4000000>>,
      <<5000000, 5010000>>,
      <<5000000, 5010001>>,
      <<2000000, 2000000, 2000000, 2000000, 2000000>>,
      <<3000000, 3000000, 3000000, 3000000, 3000000>>,
      <<1, 1, 1, 1, 1>> }

ArmatureConfigs ==
    [max_bones : {3, 75},
     max_influences_per_vertex : {4},
     bone_naming_pattern : {NoPattern, BonePattern},
     categories_requiring_armature : {{"character"}},
     category : {"env_prop", "character"}]

\* Every armature list with no skinned mesh and with one plain skinned mesh,
\* and every skinned mesh with no armature and with one plain armature.
ArmatureContexts ==
    [armatures : SeqsUpTo(ArmatureSamples, MaxArmatures),
     skinned_meshes : {<<>>, <<<<<<6000000, 4000000>>>>>>}]
    \cup
    [armatures : {<<>>, <<<<Bone("root", 0), Bone("child", 1)>>>>},
     skinned_meshes : {<<>>} \cup {<<m>> : m \in SeqsUpTo(VertexSamples, MaxSkinnedVerts)}]

\* check_armature, called once on a fresh context
check_armature ==
    /\ StageIdle
    /\ \E context \in ArmatureContexts, config \in ArmatureConfigs :
          /\ stage_ctx' = context
          /\ stage_config' = config
          /\ stage_result' = check_armature_result(context, config)
          /\ skinned_read' = ~ArmatureEarlyExit(context.armatures, config)
    /\ UNCHANGED stage_perf
    /\ UNCHANGED <<aggVars, remVars, extVars>>

ArmNext == check_armature

(***************************************************************************)
(* pipeline/texture.py                                                     *)
(*                                                                         *)
(* An image is [name, size, depth, colorspace_name] with size = <<w, h>>;  *)
(* a material is [name, nodes], nodes being its Image Texture nodes        *)
(* [socket_name, image_name, filepath_missing].  Substring tests on names  *)
(* are modelled by the table KeywordsIn of the keywords each name holds.   *)
(***************************************************************************)
TextureImage(name, size, depth, colorspace_name) ==
    [name |-> name, size |-> size, depth |-> depth, colorspace_name |-> colorspace_name]

ImageTextureNode(socket_name, image_name, filepath_missing) ==
    [socket_name |-> socket_name, image_name |-> image_name,
     filepath_missing |-> filepath_missing]

TextureMaterial(name, nodes) == [name |-> name, nodes |-> nodes]

_SRGB_KEYWORDS == {"albedo", "diffuse", "color", "colour", "basecolor", "base_color"}
_LINEAR_KEYWORDS ==
    {"normal", "rough", "roughness", "metal", "metallic", "ao",
     "ambient_occlusion", "specular", "height", "bump", "displacement"}

\* str.lower() on the names the model uses.
Lower(text) ==
    CASE text = "Base Color" -> "base color"
      [] text = "Normal" -> "normal"
      [] text = "Roughness" -> "roughness"
      [] text = "Wood_Albedo" -> "wood_albedo"
      [] OTHER -> text

\* The keywords kw with `kw in text`, for the lower-case names the model uses.
KeywordsIn(text) ==
    CASE text = "base color" -> {"color"}
      [] text = "normal" -> {"normal"}
      [] text = "roughness" -> {"rough", "roughness"}
      [] text = "wood_albedo" -> {"albedo"}
      [] text = "wood_normal" -> {"normal"}
      [] text = "metal_color" -> {"metal", "color"}
      [] OTHER -> {}

NoColorspace == "None"
InferFromText(text) ==
    IF KeywordsIn(text) \cap _SRGB_KEYWORDS # {} THEN "sRGB"
    ELSE IF KeywordsIn(text) \cap _LINEAR_KEYWORDS # {} THEN "Non-Color"
    ELSE NoColorspace

_infer_expected_colorspace(socket_name, image_name) ==
    IF InferFromText(Lower(socket_name)) # NoColorspace
    THEN InferFromText(Lower(socket_name))
    ELSE InferFromText(Lower(image_name))

\* All Image Texture nodes of all materials, in iteration order.
RECURSIVE AllNodes(_)
AllNodes(materials) ==
    IF materials = <<>> THEN <<>> ELSE materials[1].nodes \o AllNodes(Tail(materials))

_check_missing_textures(materials) ==
    LET nodes == AllNodes(materials)
        broken == Cardinality({i \in DOMAIN nodes : nodes[i].filepath_missing})
    IN  CheckResult("missing_textures", IF broken > 0 THEN "FAIL" ELSE "PASS", broken)

\* a & b for non-negative integers.
RECURSIVE BitAnd(_, _)
BitAnd(a, b) ==
    IF a = 0 \/ b = 0 THEN 0
    ELSE 2 * BitAnd(a \div 2, b \div 2) + (IF a % 2 = 1 /\ b % 2 = 1 THEN 1 ELSE 0)

\* Mutant of _is_power_of_two: n >= 0 for n > 0 (0 & -1 is 0).
is_power_of_two_accepts_zero(n) == n >= 0 /\ (n = 0 \/ BitAnd(n, n - 1) = 0)

_is_power_of_two(n) == n > 0 /\ BitAnd(n, n - 1) = 0

TextureLimit(config) ==
    IF config.is_hero_asset THEN config.max_resolution_hero
    ELSE config.max_resolution_standard

_check_resolution_limit(images, config) ==
    LET limit == TextureLimit(config)
        Over(img) == img.size[1] > limit \/ img.size[2] > limit
        bad == SelectSeq(images, Over)
        violations == [i \in DOMAIN bad |->
                          [name |-> bad[i].name, size |-> bad[i].size, limit |-> limit]]
    IN  CheckResult("resolution_limit", IF violations # <<>> THEN "FAIL" ELSE "PASS",
                    [violations |-> violations])

_check_power_of_two(images) ==
    LET NotPot(img) == ~(_is_power_of_two(img.size[1]) /\ _is_power_of_two(img.size[2]))
        bad == SelectSeq(images, NotPot)
        violations == [i \in DOMAIN bad |-> [name |-> bad[i].name, size |-> bad[i].size]]
    IN  CheckResult("power_of_two", IF violations # <<>> THEN "FAIL" ELSE "PASS",
                    [violations |-> violations])

\* The loop of _check_texture_count: the first material with the largest count.
RECURSIVE WorstMaterial(_, _)
WorstMaterial(materials, worst) ==
    IF materials = <<>> THEN worst
    ELSE WorstMaterial(Tail(materials),
                       IF Len(materials[1].nodes) > worst.max
                       THEN [max |-> Len(materials[1].nodes), material |-> materials[1].name]
                       ELSE worst)

_check_texture_count(materials, config) ==
    LET worst == WorstMaterial(materials, [max |-> 0, material |-> ""])
    IN  CheckResult("texture_count",
                    IF worst.max > config.max_textures_per_material THEN "FAIL" ELSE "PASS",
                    worst)

_STANDARD_DEPTHS == {24, 32}

_check_channel_depth(images) ==
    LET Odd(img) == img.depth \notin _STANDARD_DEPTHS
        bad == SelectSeq(images, Odd)
        flagged == [i \in DOMAIN bad |-> [name |-> bad[i].name, depth |-> bad[i].depth]]
    IN  CheckResult("channel_depth", IF flagged # <<>> THEN "WARNING" ELSE "PASS",
                    [images |-> flagged])

_check_color_space(materials, images) ==
    LET nodes == AllNodes(materials)
        Known(name) == \E i \in DOMAIN images : images[i].name = name
        \* image_by_name: the last image of a name wins
        ByName(name) ==
            images[CHOOSE i \in DOMAIN images :
                       /\ images[i].name = name
                       /\ \A j \in DOMAIN images : images[j].name = name => j <= i]
        Expected(node) == _infer_expected_colorspace(node.socket_name, node.image_name)
        Mismatch(node) ==
            /\ Expected(node) # NoColorspace
            /\ Known(node.image_name)
            /\ IF Expected(node) = "Non-Color"
               THEN ByName(node.image_name).colorspace_name \notin {"Non-Color", "Linear"}
               ELSE ByName(node.image_name).colorspace_name # Expected(node)
        bad == SelectSeq(nodes, Mismatch)
        violations == [i \in DOMAIN bad |->
                          [name |-> bad[i].image_name,
                           expected |-> Expected(bad[i]),
                           actual |-> ByName(bad[i].image_name).colorspace_name]]
    IN  CheckResult("color_space", IF violations # <<>> THEN "WARNING" ELSE "PASS",
                    [violations |-> violations])

\* The value check_textures returns.
check_textures_result(context, config) ==
    LET materials == context.materials
        images == context.images
        checks == <<_check_missing_textures(materials),
                    _check_resolution_limit(images, config),
                    _check_power_of_two(images),
                    _check_texture_count(materials, config),
                    _check_channel_depth(images),
                    _check_color_space(materials, images)>>
    IN  StageResult("texture", StageStatusOf(checks), checks, <<>>, <<>>)

\* Bounds of the texture inputs.
MaxImages == 2
MaxMaterials == 2

\* Widths and heights: negative, zero, one, powers of two and others.
DimSamples == {-4, 0, 1, 3, 4, 6, 8}

ImageSamples ==
    {TextureImage("wood_albedo", <<w, h>>, 24, "sRGB") : w, h \in DimSamples}
    \cup {TextureImage("wood_normal", <<4, 4>>, 16, "sRGB"),
          TextureImage("wood_normal", <<4, 8>>, 32, "Non-Color"),
          TextureImage("wood_normal", <<8, 4>>, 24, "Linear"),
          TextureImage("wood_albedo", <<4, 4>>, 24, "Non-Color"),
          TextureImage("image", <<16, 16>>, 48, "Raw")}

MaterialSamples ==
    {TextureMaterial("bare", <<>>),
     TextureMaterial("wood",
         <<ImageTextureNode("Base Color", "wood_albedo", FALSE),
           ImageTextureNode("Normal", "wood_normal", FALSE)>>),
     TextureMaterial("broken",
         <<ImageTextureNode("Roughness", "gone", TRUE)>>),
     TextureMaterial("loose",
         <<ImageTextureNode("image", "wood_normal", FALSE),
           ImageTextureNode("image", "image", FALSE),
           ImageTextureNode("metal_color", "wood_albedo", TRUE)>>)}

TextureConfigs ==
    [max_resolution_standard : {4},
     max_resolution_hero : {8},
     is_hero_asset : BOOLEAN,
     max_textures_per_material : {1, 2}]

\* Every image list with the plain configurations and no material, and every
\* material list and configuration with a few image lists.
TextureInputs ==
    ({[materials |-> <<>>, images |-> imgs] : imgs \in SeqsUpTo(ImageSamples, MaxImages)}
        \X {c \in TextureConfigs : c.max_textures_per_material = 2})
    \cup
    ({[materials |-> mats, images |-> imgs] :
          mats \in SeqsUpTo(MaterialSamples, MaxMaterials),
          imgs \in SeqsUpTo({i \in ImageSamples : i.size \in {<<4, 4>>, <<16, 16>>}},
                            MaxImages)}
        \X TextureConfigs)

\* check_textures, called once on a fresh context
check_textures ==
    /\ StageIdle
    /\ \E input \in TextureInputs :
          /\ stage_ctx' = input[1]
          /\ stage_config' = input[2]
          /\ stage_result' = check_textures_result(input[1], input[2])
    /\ UNCHANGED <<skinned_read, stage_perf>>
    /\ UNCHANGED <<aggVars, remVars, extVars>>

TexNext == check_textures

(***************************************************************************)
(* pipeline/geometry.py                                                    *)
(*                                                                         *)
(* A bmesh is modelled by what the checks read of it: verts with their     *)
(* link_faces, edges with is_manifold and link_faces, faces with           *)
(* calc_area() and loops, a loop with its edge and vert.  Elements are     *)
(* referred to by their index in the bmesh, which stands for object        *)
(* identity ("is", id()).  Areas are exact decimals in units of 1e-7.      *)
(***************************************************************************)
_DEFAULT_BUDGETS ==
    [env_prop |-> <<500, 5000>>,
     hero_prop |-> <<5000, 15000>>,
     character |-> <<15000, 30000>>,
     vehicle |-> <<10000, 25000>>]

\* Mutant of _check_polycount: a total equal to min or max fails as well.
check_polycount_bounds_fail(mesh_objects, config) ==
    LET total == SumSeq([i \in DOMAIN mesh_objects |-> mesh_objects[i].triangle_count])
        budget == IF config.category \in DOMAIN config.triangle_budgets
                  THEN config.triangle_budgets[config.category]
                  ELSE _DEFAULT_BUDGETS["env_prop"]
    IN  IF total <= budget[1] \/ total >= budget[2]
        THEN CheckResult("polycount_budget", "FAIL", total)
        ELSE CheckResult("polycount_budget", "PASS", total)

_check_polycount(mesh_objects, config) ==
    LET total == SumSeq([i \in DOMAIN mesh_objects |-> mesh_objects[i].triangle_count])
        \* triangle_budgets.get(category, _DEFAULT_BUDGETS.get("env_prop", (500, 5000)))
        budget == IF config.category \in DOMAIN config.triangle_budgets
                  THEN config.triangle_budgets[config.category]
                  ELSE _DEFAULT_BUDGETS["env_prop"]
        min_tris == budget[1]
        max_tris == budget[2]
    IN  IF total < min_tris \/ total > max_tris
        THEN CheckResult("polycount_budget", "FAIL", total)
        ELSE CheckResult("polycount_budget", "PASS", total)

_check_non_manifold(all_bm) ==
    LET NonManifold(e) == ~e.is_manifold
        count == SumSeq([i \in DOMAIN all_bm |-> Len(SelectSeq(all_bm[i].edges, NonManifold))])
    IN  CheckResult("non_manifold", IF count > 0 THEN "FAIL" ELSE "PASS", count)

_check_degenerate_faces(all_bm) ==
    LET Degenerate(f) == f.area < 10    \* calc_area() < 1e-6
        count == SumSeq([i \in DOMAIN all_bm |-> Len(SelectSeq(all_bm[i].faces, Degenerate))])
    IN  CheckResult("degenerate_faces", IF count > 0 THEN "FAIL" ELSE "PASS", count)

_check_normal_consistency(all_bm) ==
    LET \* The vert of the first loop of the face that runs along the edge, or 0 (None).
        FirstLoopVert(face, edge) ==
            LET on == {k \in DOMAIN face.loops : face.loops[k].edge = edge}
            IN  IF on = {} THEN 0
                ELSE face.loops[CHOOSE k \in on : \A j \in on : k <= j].vert
        Flipped(bm, e) ==
            /\ Len(bm.edges[e].link_faces) = 2
            /\ LET f1 == bm.edges[e].link_faces[1]
                   f2 == bm.edges[e].link_faces[2]
                   v_in_f1 == FirstLoopVert(bm.faces[f1], e)
                   v_in_f2 == FirstLoopVert(bm.faces[f2], e)
               IN  v_in_f1 # 0 /\ v_in_f2 # 0 /\ v_in_f1 = v_in_f2
        \* id(face) is the pair of the bmesh and the face in it
        inconsistent == {<<b, f>> \in UNION {{b} \X (DOMAIN all_bm[b].faces) :
                                                  b \in DOMAIN all_bm} :
                            \E e \in DOMAIN all_bm[b].edges :
                                /\ Flipped(all_bm[b], e)
                                /\ f \in {all_bm[b].edges[e].link_faces[1],
                                          all_bm[b].edges[e].link_faces[2]}}
        count == Cardinality(inconsistent)
    IN  CheckResult("normal_consistency", IF count > 0 THEN "FAIL" ELSE "PASS", count)

_check_loose_geometry(all_bm) ==
    LET Loose(x) == Len(x.link_faces) = 0
        count == SumSeq([i \in DOMAIN all_bm |->
                            Len(SelectSeq(all_bm[i].verts, Loose)) + Len(SelectSeq(all_bm[i].edges, Loose))])
    IN  CheckResult("loose_geometry", IF count > 0 THEN "FAIL" ELSE "PASS", count)

_check_interior_faces(all_bm) ==
    LET Interior(bm, face) ==
            /\ face.loops # <<>>
            /\ \A k \in DOMAIN face.loops : Len(bm.edges[face.loops[k].edge].link_faces) > 2
        count == SumSeq([i \in DOMAIN all_bm |->
                            Cardinality({f \in DOMAIN all_bm[i].faces :
                                            Interior(all_bm[i], all_bm[i].faces[f])})])
    IN  CheckResult("interior_faces", IF count > 0 THEN "FAIL" ELSE "PASS", count)

\* Mutant of check_geometry_result: the checks after the first FAIL are left out.
check_geometry_result_short_circuit(context, config) ==
    LET mesh_objects == context.mesh_objects
        all_bm == [i \in DOMAIN mesh_objects |-> mesh_objects[i].bm]
        all_checks == <<_check_polycount(mesh_objects, config),
                        _check_non_manifold(all_bm),
                        _check_degenerate_faces(all_bm),
                        _check_normal_consistency(all_bm),
                        _check_loose_geometry(all_bm),
                        _check_interior_faces(all_bm)>>
        failed == {i \in DOMAIN all_checks : all_checks[i].status = "FAIL"}
        last == IF failed = {} THEN Len(all_checks)
                ELSE CHOOSE i \in failed : \A j \in failed : i <= j
        checks == SubSeq(all_checks, 1, last)
    IN  StageResult("geometry", StageStatusOf(checks), checks, <<>>, <<>>)

\* The value check_geometry returns.
check_geometry_result(context, config) ==
    LET mesh_objects == context.mesh_objects
        all_bm == [i \in DOMAIN mesh_objects |-> mesh_objects[i].bm]
        checks == <<_check_polycount(mesh_objects, config),
                    _check_non_manifold(all_bm),
                    _check_degenerate_faces(all_bm),
                    _check_normal_consistency(all_bm),
                    _check_loose_geometry(all_bm),
                    _check_interior_faces(all_bm)>>
    IN  StageResult("geometry", StageStatusOf(checks), checks, <<>>, <<>>)

\* Bound of the geometry inputs.
MaxMeshObjects == 2

\* Contexts of up to MaxMeshObjects mesh objects, each with the bmesh its
\* bmesh_get() hands out; with the default budgets, with a table of one's
\* own, and with a category the table lacks.
GeometryInputs ==
    LET BMVert(link_faces) == [link_faces |-> link_faces]
        BMEdge(is_manifold, link_faces) ==
            [is_manifold |-> is_manifold, link_faces |-> link_faces]
        BMLoop(edge, vert) == [edge |-> edge, vert |-> vert]
        BMFace(area, loops) == [area |-> area, loops |-> loops]
        BMesh(verts, edges, faces) == [verts |-> verts, edges |-> edges, faces |-> faces]
        MeshObject(name, triangle_count, bm) ==
            [name |-> name, triangle_count |-> triangle_count, bm |-> bm]
        \* Nothing at all.
        EmptyBM == BMesh(<<>>, <<>>, <<>>)
        \* Two faces over one shared edge, wound consistently: each face runs
        \* along the edge from a different vert.  The second has area 1e-6.
        GoodBM ==
            BMesh(<<BMVert(<<1, 2>>), BMVert(<<1, 2>>)>>,
                  <<BMEdge(TRUE, <<1, 2>>)>>,
                  <<BMFace(5000000, <<BMLoop(1, 1)>>), BMFace(10, <<BMLoop(1, 2)>>)>>)
        \* The same two faces, both running along the edge from vert 1.
        FlippedBM ==
            BMesh(<<BMVert(<<1, 2>>), BMVert(<<1, 2>>)>>,
                  <<BMEdge(TRUE, <<1, 2>>)>>,
                  <<BMFace(5000000, <<BMLoop(1, 1)>>), BMFace(5000000, <<BMLoop(1, 1)>>)>>)
        \* Three stray verts and a wire edge.
        LooseBM ==
            BMesh(<<BMVert(<<>>), BMVert(<<>>), BMVert(<<>>)>>,
                  <<BMEdge(FALSE, <<>>)>>,
                  <<>>)
        \* One face of area 0 and one of area 9e-7, over a shared edge.
        DegenerateBM ==
            BMesh(<<BMVert(<<1, 2>>), BMVert(<<1, 2>>)>>,
                  <<BMEdge(TRUE, <<1, 2>>)>>,
                  <<BMFace(0, <<BMLoop(1, 1)>>), BMFace(9, <<BMLoop(1, 2)>>)>>)
        \* Three faces over one edge; a fourth face has no loops.
        InteriorBM ==
            BMesh(<<BMVert(<<1, 2, 3>>), BMVert(<<1, 2, 3>>)>>,
                  <<BMEdge(FALSE, <<1, 2, 3>>)>>,
                  <<BMFace(5000000, <<BMLoop(1, 1)>>), BMFace(5000000, <<BMLoop(1, 2)>>),
                    BMFace(5000000, <<BMLoop(1, 1)>>), BMFace(5000000, <<>>)>>)
        \* An open border: one face whose only edge has no second face.
        BorderBM ==
            BMesh(<<BMVert(<<1>>), BMVert(<<1>>)>>,
                  <<BMEdge(FALSE, <<1>>)>>,
                  <<BMFace(5000000, <<BMLoop(1, 1)>>)>>)
        samples == {MeshObject("Empty", 0, EmptyBM),
                    MeshObject("Crate", 2500, GoodBM),
                    MeshObject("Crate_min", 500, GoodBM),
                    MeshObject("Crate_max", 5000, GoodBM),
                    MeshObject("Flipped", 250, FlippedBM),
                    MeshObject("Loose", 1, LooseBM),
                    MeshObject("Sliver", 2500, DegenerateBM),
                    MeshObject("Inner", 5001, InteriorBM),
                    MeshObject("Open", 499, BorderBM)}
        configs ==
            [triangle_budgets : {_DEFAULT_BUDGETS},
             category : {"env_prop", "hero_prop", "prop"}]
            \cup [triangle_budgets : {[env_prop |-> <<0, 10>>]},
                  category : {"env_prop", "hero_prop"}]
    IN  {[mesh_objects |-> objs] : objs \in SeqsUpTo(samples, MaxMeshObjects)} \X configs

\* check_geometry, called once on a fresh context
check_geometry ==
    /\ StageIdle
    /\ \E input \in GeometryInputs :
          /\ stage_ctx' = input[1]
          /\ stage_config' = input[2]
          /\ stage_result' = check_geometry_result(input[1], input[2])
    /\ UNCHANGED <<skinned_read, stage_perf>>
    /\ UNCHANGED <<aggVars, remVars, extVars>>

(***************************************************************************)
(* pipeline/uv.py                                                          *)
(*                                                                         *)
(* A UV coordinate is an integer count of 1/32: such values, their         *)
(* differences and the products of two differences are exact in binary64,  *)
(* so every sign test below is the one the floats give.  A point is        *)
(* <<u, v>>, a triangle <<p0, p1, p2>>.  A UV area is a count of 1/2048, a *)
(* world area a count of 2^-21 m2, and a density the exact quotient        *)
(* <<numerator, denominator>>; the targets are whole numbers, which no     *)
(* rounding of such a quotient can cross.                                  *)
(***************************************************************************)
\* In units of 1/1024.
_cross_2d(o, a, b) ==
    (a[1] - o[1]) * (b[2] - o[2]) - (a[2] - o[2]) * (b[1] - o[1])

_segments_intersect(a0, a1, b0, b1) ==
    LET d1 == _cross_2d(b0, b1, a0)
        d2 == _cross_2d(b0, b1, a1)
        d3 == _cross_2d(a0, a1, b0)
        d4 == _cross_2d(a0, a1, b1)
    IN  /\ ((d1 > 0 /\ d2 < 0) \/ (d1 < 0 /\ d2 > 0))
        /\ ((d3 > 0 /\ d4 < 0) \/ (d3 < 0 /\ d4 > 0))

_point_in_triangle(p, t0, t1, t2) ==
    LET d0 == _cross_2d(t0, t1, p)
        d1 == _cross_2d(t1, t2, p)
        d2 == _cross_2d(t2, t0, p)
        has_neg == d0 < 0 \/ d1 < 0 \/ d2 < 0
        has_pos == d0 > 0 \/ d1 > 0 \/ d2 > 0
    IN  ~(has_neg /\ has_pos)

\* Mutant of _triangles_overlap: the second containment test is left out.
_triangles_overlap_one_sided(t1, t2) ==
    \/ \E i, j \in 0..2 :
          _segments_intersect(t1[i + 1], t1[((i + 1) % 3) + 1],
                              t2[j + 1], t2[((j + 1) % 3) + 1])
    \/ _point_in_triangle(t1[1], t2[1], t2[2], t2[3])

_triangles_overlap(t1, t2) ==
    \/ \E i, j \in 0..2 :
          _segments_intersect(t1[i + 1], t1[((i + 1) % 3) + 1],
                              t2[j + 1], t2[((j + 1) % 3) + 1])
    \/ _point_in_triangle(t1[1], t2[1], t2[2], t2[3])
    \/ _point_in_triangle(t2[1], t1[1], t1[2], t1[3])

\* abs(cross) / 2.0 in units of 1/1024, that is abs(cross) in units of 1/2048
_triangle_area_2d(tri) ==
    Abs((tri[2][1] - tri[1][1]) * (tri[3][2] - tri[1][2])
        - (tri[3][1] - tri[1][1]) * (tri[2][2] - tri[1][2]))

_GRID == 16

_find_overlapping_pairs(triangles) ==
    IF Len(triangles) < 2 THEN 0
    ELSE LET \* int(x * _GRID) of x = c/32: c * 16 / 32 cut toward zero
             Cell(c) == IF c >= 0 THEN (c * _GRID) \div 32 ELSE -((-c * _GRID) \div 32)
             \* _triangle_aabb: <<min(xs), min(ys), max(xs), max(ys)>>
             Box(tri) ==
                 LET xs == {tri[1][1], tri[2][1], tri[3][1]}
                     ys == {tri[1][2], tri[2][2], tri[3][2]}
                     Least(S) == CHOOSE x \in S : \A y \in S : x <= y
                     Most(S) == CHOOSE x \in S : \A y \in S : x >= y
                 IN  <<Least(xs), Least(ys), Most(xs), Most(ys)>>
             \* the grid cells a triangle is appended to
             Cells(tri) ==
                 LET box == Box(tri)
                 IN  (Cell(box[1])..Cell(box[3])) \X (Cell(box[2])..Cell(box[4]))
             \* a cell lists its triangles in index order, so a < b
             checked == {pair \in (DOMAIN triangles) \X (DOMAIN triangles) :
                            /\ pair[1] < pair[2]
                            /\ Cells(triangles[pair[1]]) \cap Cells(triangles[pair[2]]) # {}}
         IN  Cardinality({pair \in checked :
                             _triangles_overlap(triangles[pair[1]], triangles[pair[2]])})

\* The object's UV layers of that name: none when layer_name is not in
\* uv_layer_names(), else the first is the one uv_loops and uv_triangles read.
Layers(obj, layer_name) ==
    LET Named(layer) == layer.name = layer_name
    IN  SelectSeq(obj.uv_layers, Named)

_check_missing_uvs(objects, config) ==
    LET NoLayers(obj) == Len(obj.uv_layers) = 0
        count == Len(SelectSeq(objects, NoLayers))
    IN  CheckResult("missing_uvs", IF count > 0 THEN "FAIL" ELSE "PASS", count)

_check_uv_bounds(objects, config) ==
    LET Outside(p) == ~(0 <= p[1] /\ p[1] <= 32 /\ 0 <= p[2] /\ p[2] <= 32)
        count == SumSeq([i \in DOMAIN objects |->
                     IF Layers(objects[i], config.uv_layer_name) = <<>> THEN 0
                     ELSE Len(SelectSeq(Layers(objects[i], config.uv_layer_name)[1].loops,
                                        Outside))])
    IN  CheckResult("uv_bounds", IF count > 0 THEN "FAIL" ELSE "PASS", count)

_check_uv_overlap(objects, config) ==
    LET all_tris == Flatten([i \in DOMAIN objects |->
                        IF Layers(objects[i], config.uv_layer_name) # <<>>
                        THEN Layers(objects[i], config.uv_layer_name)[1].triangles
                        ELSE <<>>])
        overlap_count == _find_overlapping_pairs(all_tris)
    IN  CheckResult("uv_overlap", IF overlap_count > 0 THEN "FAIL" ELSE "PASS",
                    overlap_count)

_check_texel_density(objects, config) ==
    LET min_target == config.texel_density_target_px_per_m[1]
        max_target == config.texel_density_target_px_per_m[2]
        UvArea(obj) ==
            LET tris == Layers(obj, config.uv_layer_name)[1].triangles
            IN  SumSeq([k \in DOMAIN tris |-> _triangle_area_2d(tris[k])])
        Measured(obj) ==
            /\ Layers(obj, config.uv_layer_name) # <<>>
            /\ obj.world_surface_area > 0
            /\ UvArea(obj) > 0
        measured == SelectSeq(objects, Measured)
        \* a quotient in lowest terms
        Quotient(n, d) == <<n \div GCD(n, d), d \div GCD(n, d)>>
        \* (uv / 2048) / (world / 2^21) = uv * 1024 / world
        densities == [i \in DOMAIN measured |->
                         Quotient(UvArea(measured[i]) * 1024,
                                  measured[i].world_surface_area)]
        Less(d, e) == d[1] * e[2] < e[1] * d[2]
        d_min == densities[CHOOSE i \in DOMAIN densities :
                               \A j \in DOMAIN densities : ~Less(densities[j], densities[i])]
        d_max == densities[CHOOSE i \in DOMAIN densities :
                               \A j \in DOMAIN densities : ~Less(densities[i], densities[j])]
        \* the sum over the common denominator
        common == ProdSeq([i \in DOMAIN densities |-> densities[i][2]])
        total == SumSeq([i \in DOMAIN densities |->
                            densities[i][1] * (common \div densities[i][2])])
        d_mean == Quotient(total, common * Len(densities))
        Outlier(d) == Less(d, <<min_target, 1>>) \/ Less(<<max_target, 1>>, d)
        outlier_count == Len(SelectSeq(densities, Outlier))
    IN  IF densities = <<>>
        THEN CheckResult("texel_density", "SKIPPED",
                         [min |-> <<0, 1>>, max |-> <<0, 1>>, mean |-> <<0, 1>>,
                          outlier_count |-> 0])
        ELSE CheckResult("texel_density",
                         IF outlier_count > 0 THEN "WARNING" ELSE "PASS",
                         [min |-> d_min, max |-> d_max, mean |-> d_mean,
                          outlier_count |-> outlier_count])

_check_lightmap_uv2(objects, config) ==
    LET Missing(obj) == Layers(obj, config.lightmap_layer_name) = <<>>
        missing == SelectSeq(objects, Missing)
        all_tris == Flatten([i \in DOMAIN objects |->
                        Layers(objects[i], config.lightmap_layer_name)[1].triangles])
        overlap_count == _find_overlapping_pairs(all_tris)
    IN  IF ~config.require_lightmap_uv2
        THEN CheckResult("lightmap_uv2", "SKIPPED", [present |-> FALSE, overlap_count |-> 0])
        ELSE IF missing # <<>>
        THEN CheckResult("lightmap_uv2", "FAIL", [present |-> FALSE, overlap_count |-> 0])
        ELSE CheckResult("lightmap_uv2", IF overlap_count > 0 THEN "FAIL" ELSE "PASS",
                         [present |-> TRUE, overlap_count |-> overlap_count])

\* The value check_uvs returns.
check_uvs_result(context, config) ==
    LET objects == context.mesh_objects
        checks == <<_check_missing_uvs(objects, config),
                    _check_uv_bounds(objects, config),
                    _check_uv_overlap(objects, config),
                    _check_texel_density(objects, config),
                    _check_lightmap_uv2(objects, config)>>
    IN  StageResult("uv", StageStatusOf(checks), checks, <<>>, <<>>)

\* Bound of the UV inputs.
MaxUVObjects == 2

\* Contexts of up to MaxUVObjects mesh objects with their UV layers (the
\* loops and the triangles each layer hands out) and world surface area;
\* with the default layer names and targets, and with one layer in both roles.
UVInputs ==
    LET UVLayer(name, loops, triangles) ==
            [name |-> name, loops |-> loops, triangles |-> triangles]
        UVMeshObject(name, uv_layers, world_surface_area) ==
            [name |-> name, uv_layers |-> uv_layers,
             world_surface_area |-> world_surface_area]
        \* the lower left corner
        TA == <<<<0, 0>>, <<16, 0>>, <<0, 16>>>>
        \* touches TA's long edge with one corner
        TB == <<<<8, 8>>, <<24, 8>>, <<8, 24>>>>
        \* shares a grid cell with TA and no point
        TC == <<<<16, 16>>, <<32, 16>>, <<16, 32>>>>
        \* shares no grid cell with TA
        TD == <<<<24, 0>>, <<32, 0>>, <<32, 8>>>>
        \* crosses TA, no corner of one inside the other
        TE == <<<<4, -4>>, <<8, 20>>, <<6, 20>>>>
        samples == {UVMeshObject("Bare", <<>>, 512),
                    UVMeshObject("Crate",
                        <<UVLayer("UVMap", <<TA[1], TA[2], TA[3], TD[1], TD[2], TD[3]>>, <<TA, TD>>),
                          UVLayer("UVMap2", <<>>, <<TA, TC>>)>>, 512),
                    UVMeshObject("Stacked",
                        <<UVLayer("UVMap", <<TA[1], TA[2], TA[3]>>, <<TA, TB>>)>>, 0),
                    UVMeshObject("Spill",
                        <<UVLayer("UVMap", <<TE[1], TE[2], TE[3], <<33, 0>>>>, <<TE>>),
                          UVLayer("UVMap2", <<>>, <<TC>>)>>, 64),
                    UVMeshObject("Sparse",
                        <<UVLayer("UVMap", <<TC[1], TC[2], TC[3]>>, <<TC>>),
                          UVLayer("UVMap2", <<>>, <<TA, TE>>)>>, 4096),
                    UVMeshObject("Renamed",
                        <<UVLayer("uv0", <<<<40, 40>>>>, <<TA, TA>>)>>, 512)}
        configs ==
            [texel_density_target_px_per_m : {<<512, 1024>>},
             require_lightmap_uv2 : BOOLEAN,
             uv_layer_name : {"UVMap"},
             lightmap_layer_name : {"UVMap2"}]
            \cup
            [texel_density_target_px_per_m : {<<0, 64>>},
             require_lightmap_uv2 : {TRUE},
             uv_layer_name : {"uv0"},
             lightmap_layer_name : {"uv0"}]
    IN  {[mesh_objects |-> objs] : objs \in SeqsUpTo(samples, MaxUVObjects)} \X configs

\* check_uvs, called once on a fresh context
check_uvs ==
    /\ StageIdle
    /\ \E input \in UVInputs :
          /\ stage_ctx' = input[1]
          /\ stage_config' = input[2]
          /\ stage_result' = check_uvs_result(input[1], input[2])
    /\ UNCHANGED <<skinned_read, stage_perf>>
    /\ UNCHANGED <<aggVars, remVars, extVars>>

\* The overlap functions called on their own.  An asset's UV triangles are up
\* to MaxTriangles of the samples: a triangle inside the large one, one
\* crossing its edges, one sharing only an edge with it, one far away in other
\* grid cells, one with negative coordinates, one collapsed to a point, two
\* that cut into each other through each other's corners only, and the large
\* one.
MaxTriangles == 3

TriangleSamples ==
    << <<<<4, 4>>, <<8, 4>>, <<4, 8>>>>,
       <<<<16, -8>>, <<24, 24>>, <<8, 24>>>>,
       <<<<32, 32>>, <<0, 32>>, <<32, 0>>>>,
       <<<<64, 64>>, <<72, 64>>, <<64, 72>>>>,
       <<<<-3, -3>>, <<-1, -3>>, <<-3, -1>>>>,
       <<<<20, 20>>, <<20, 20>>, <<20, 20>>>>,
       <<<<0, 32>>, <<-16, 0>>, <<16, 0>>>>,
       <<<<-32, -8>>, <<0, 8>>, <<32, -8>>>>,
       <<<<0, 0>>, <<32, 0>>, <<0, 32>>>> >>

\* The triangle lists of up to n samples, each listed in the order of the
\* samples; find_overlapping_pairs hands a list over in every order.
TriangleLists(n) ==
    {[k \in DOMAIN idx |-> TriangleSamples[idx[k]]] :
        idx \in {q \in SeqsUpTo(DOMAIN TriangleSamples, n) :
                    \A i, j \in DOMAIN q : i < j => q[i] <= q[j]}}

NoCall == [fn |-> "None"]
UvIdle ==
    /\ uv_tris = <<>>
    /\ uv_call = NoCall

\* The orders a list of n elements can be given in.
Orders(n) == {p \in [1..n -> 1..n] : \A i, j \in 1..n : p[i] = p[j] => i = j}

\* _find_overlapping_pairs, called on the asset's triangles in any order
find_overlapping_pairs ==
    /\ \E p \in Orders(Len(uv_tris)) :
          LET triangles == [i \in DOMAIN uv_tris |-> uv_tris[p[i]]]
          IN  uv_call' = [fn |-> "_find_overlapping_pairs",
                          args |-> <<triangles>>,
                          result |-> _find_overlapping_pairs(triangles)]
    /\ UNCHANGED uv_tris
    /\ UNCHANGED <<aggVars, stageVars, remVars, runVars, serVars, intakeVars, pbrVars, toolVars>>

\* _triangles_overlap, called on any two of the asset's triangles
triangles_overlap ==
    /\ \E a, b \in DOMAIN uv_tris :
          uv_call' = [fn |-> "_triangles_overlap",
                      args |-> <<uv_tris[a], uv_tris[b]>>,
                      result |-> _triangles_overlap(uv_tris[a], uv_tris[b])]
    /\ UNCHANGED uv_tris
    /\ UNCHANGED <<aggVars, stageVars, remVars, runVars, serVars, intakeVars, pbrVars, toolVars>>

OverlapNext ==
    \/ find_overlapping_pairs
    \/ triangles_overlap

(***************************************************************************)
(* pipeline/pbr.py                                                         *)
(*                                                                         *)
(* A pixel channel value and the metalness threshold are exact decimals in *)
(* units of 1e-7; pixels are flat RGBA sequences, and a missing texture    *)
(* (None) is the empty sequence, which every reader treats as it treats    *)
(* None.  A fraction is the pair <<count, total>> of the division's        *)
(* operands.  random.sample may return any selection, so the sampling      *)
(* functions and the checks built on them yield the set of values a call   *)
(* can return; a selection is listed in index order, the order having no   *)
(* part in what the checks count.                                          *)
(***************************************************************************)
PixelOne == 10000000
_NEAR_ZERO == 10
_NEAR_ONE == PixelOne - 10

RECURSIVE Concats(_)

\* random.sample(range(total), max_samples) if total > max_samples
\* else list(range(total))
SampledIndices(total, max_samples) ==
    IF total > max_samples
    THEN {idx \in [1..max_samples -> 0..(total - 1)] :
             \A i, j \in 1..max_samples : i < j => idx[i] < idx[j]}
    ELSE {[k \in 1..total |-> k - 1]}

_rgb_samples(pixels, max_samples) ==
    LET total == Len(pixels) \div 4
    IN  IF total = 0 THEN {<<>>}
        ELSE {[k \in DOMAIN idx |-> <<pixels[idx[k] * 4 + 1], pixels[idx[k] * 4 + 2],
                                      pixels[idx[k] * 4 + 3]>>] :
                 idx \in SampledIndices(total, max_samples)}

_r_samples(pixels, max_samples) ==
    LET total == Len(pixels) \div 4
    IN  IF total = 0 THEN {<<>>}
        ELSE {[k \in DOMAIN idx |-> pixels[idx[k] * 4 + 1]] :
                 idx \in SampledIndices(total, max_samples)}

\* Every list that extending an empty list by one member of each set in turn
\* can give.
Concats(sets) ==
    IF sets = <<>> THEN {<<>>}
    ELSE {head \o tail : head \in sets[1], tail \in Concats(Tail(sets))}

\* The lists a check goes on with: the gathered samples, cut down by
\* random.sample(all, albedo_sample_count) when there are more than that.
Gathered(per_material, sample_count) ==
    UNION {IF Len(all) > sample_count
           THEN {[k \in DOMAIN idx |-> all[idx[k] + 1]] :
                    idx \in SampledIndices(Len(all), sample_count)}
           ELSE {all} : all \in Concats(per_material)}

_check_pbr_workflow(materials) ==
    LET NonCompliant(mat) == ~mat.uses_principled_bsdf \/ mat.uses_spec_gloss
        bad == SelectSeq(materials, NonCompliant)
        non_compliant == [i \in DOMAIN bad |-> bad[i].name]
    IN  CheckResult("pbr_workflow", IF non_compliant # <<>> THEN "FAIL" ELSE "PASS",
                    non_compliant)

_check_material_slots(mesh_objects, config) ==
    LET \* the first object with the largest count, if that count is above 0
        Worst(i) == /\ mesh_objects[i].material_slot_count > 0
                    /\ \A j \in DOMAIN mesh_objects :
                          /\ mesh_objects[j].material_slot_count
                                <= mesh_objects[i].material_slot_count
                          /\ j < i => mesh_objects[j].material_slot_count
                                         < mesh_objects[i].material_slot_count
        found == \E i \in DOMAIN mesh_objects : Worst(i)
        worst == mesh_objects[CHOOSE i \in DOMAIN mesh_objects : Worst(i)]
        worst_count == IF found THEN worst.material_slot_count ELSE 0
        worst_object == IF found THEN worst.name ELSE ""
        failed == worst_count > config.max_material_slots
    IN  CheckResult("material_slots", IF failed THEN "FAIL" ELSE "PASS",
                    [max |-> worst_count, object |-> worst_object])

\* The set of values a call can return.
_check_albedo_range(materials, config) ==
    LET \* round(c * 255): to the nearest whole number, a tie to the even one
        \* (c * 255 is formed in two parts, each within the checker's integers)
        Srgb(c) ==
            LET high == (c \div 10000) * 255
                rest == (high % 1000) * 10000 + (c % 10000) * 255
                q == high \div 1000 + rest \div PixelOne
                r == rest % PixelOne
            IN  IF 2 * r > PixelOne \/ (2 * r = PixelOne /\ q % 2 = 1) THEN q + 1 ELSE q
        Out(c) == Srgb(c) < config.albedo_min_srgb \/ Srgb(c) > config.albedo_max_srgb
        OutOfRange(rgb) == Out(rgb[1]) \/ Out(rgb[2]) \/ Out(rgb[3])
        Result(all_rgb) ==
            IF all_rgb = <<>>
            THEN CheckResult("albedo_range", "PASS",
                             [fraction_out_of_range |-> <<0, 1>>, sample_count |-> 0])
            ELSE LET out_of_range == Len(SelectSeq(all_rgb, OutOfRange))
                     \* fraction > 0.05
                     warning == out_of_range * 20 > Len(all_rgb)
                 IN  CheckResult("albedo_range", IF warning THEN "WARNING" ELSE "PASS",
                                 [fraction_out_of_range |-> <<out_of_range, Len(all_rgb)>>,
                                  sample_count |-> Len(all_rgb)])
        per_material == [i \in DOMAIN materials |->
                            IF materials[i].albedo_pixels = <<>> THEN {<<>>}
                            ELSE _rgb_samples(materials[i].albedo_pixels,
                                              config.albedo_sample_count)]
    IN  {Result(all_rgb) : all_rgb \in Gathered(per_material, config.albedo_sample_count)}

\* The set of values a call can return.
_check_metalness_binary(materials, config) ==
    LET t == config.metalness_binary_threshold
        Gradient(v) == t < v /\ v < PixelOne - t
        Result(all_values) ==
            IF all_values = <<>>
            THEN CheckResult("metalness_binary", "PASS", [fraction_gradient |-> <<0, 1>>])
            ELSE LET gradient == Len(SelectSeq(all_values, Gradient))
                     \* fraction > 0.10
                     warning == gradient * 10 > Len(all_values)
                 IN  CheckResult("metalness_binary", IF warning THEN "WARNING" ELSE "PASS",
                                 [fraction_gradient |-> <<gradient, Len(all_values)>>])
        per_material == [i \in DOMAIN materials |->
                            IF materials[i].metalness_pixels = <<>> THEN {<<>>}
                            ELSE _r_samples(materials[i].metalness_pixels,
                                            config.albedo_sample_count)]
    IN  {Result(all_values) :
            all_values \in Gathered(per_material, config.albedo_sample_count)}

\* The set of values a call can return.
_check_roughness_range(materials, config) ==
    LET PureZero(v) == v < _NEAR_ZERO
        PureOne(v) == v > _NEAR_ONE
        Result(all_values) ==
            IF all_values = <<>>
            THEN CheckResult("roughness_range", "PASS",
                             [fraction_pure_zero |-> <<0, 1>>, fraction_pure_one |-> <<0, 1>>])
            ELSE LET total == Len(all_values)
                     pure_zero == Len(SelectSeq(all_values, PureZero))
                     pure_one == Len(SelectSeq(all_values, PureOne))
                     \* frac_zero > 0.5 or frac_one > 0.5
                     warning == pure_zero * 2 > total \/ pure_one * 2 > total
                 IN  CheckResult("roughness_range", IF warning THEN "WARNING" ELSE "PASS",
                                 [fraction_pure_zero |-> <<pure_zero, total>>,
                                  fraction_pure_one |-> <<pure_one, total>>])
        per_material == [i \in DOMAIN materials |->
                            IF materials[i].roughness_pixels = <<>> THEN {<<>>}
                            ELSE _r_samples(materials[i].roughness_pixels,
                                            config.albedo_sample_count)]
    IN  {Result(all_values) :
            all_values \in Gathered(per_material, config.albedo_sample_count)}

_check_normal_map(materials) ==
    LET maps == Flatten([i \in DOMAIN materials |-> materials[i].normal_map_data])
        WrongColorspace(nm) == nm.colorspace # "Non-Color"
        \* the sum of one channel over the whole pixels; the means divide
        \* each sum by the same total
        ChannelSum(nm, c) ==
            SumSeq([i \in 1..(Len(nm.pixels) \div 4) |-> nm.pixels[(i - 1) * 4 + c]])
        WrongChannel(nm) ==
            /\ Len(nm.pixels) >= 4
            /\ ~(ChannelSum(nm, 3) > ChannelSum(nm, 1) /\ ChannelSum(nm, 3) > ChannelSum(nm, 2))
        NamesOf(nms) == [i \in DOMAIN nms |-> nms[i].image_name]
        colorspace_violations == NamesOf(SelectSeq(maps, WrongColorspace))
        channel_violations == NamesOf(SelectSeq(maps, WrongChannel))
        failed == colorspace_violations # <<>> \/ channel_violations # <<>>
    IN  CheckResult("normal_map", IF failed THEN "FAIL" ELSE "PASS",
                    [colorspace_violations |-> colorspace_violations,
                     channel_violations |-> channel_violations])

\* An issue is the material's name with what the message says of it.
_check_node_graph(materials) ==
    LET IssuesOf(mat) ==
            IF ~mat.has_nodes THEN <<<<mat.name, "empty material slot">>>>
            ELSE IF mat.uses_principled_bsdf
            THEN (IF mat.orphan_image_node_count > 0
                  THEN <<<<mat.name, "orphan Image Texture node">>>> ELSE <<>>)
                 \o (IF mat.has_node_cycles THEN <<<<mat.name, "cycle detected">>>> ELSE <<>>)
            ELSE <<>>
        issues == Flatten([i \in DOMAIN materials |-> IssuesOf(materials[i])])
    IN  CheckResult("node_graph", IF issues # <<>> THEN "WARNING" ELSE "PASS", issues)

\* The set of values check_pbr can return.
check_pbr_result(context, config) ==
    LET mesh_objects == context.mesh_objects
        materials == context.materials
    IN  {LET checks == <<_check_pbr_workflow(materials),
                         _check_material_slots(mesh_objects, config),
                         albedo, metalness, roughness,
                         _check_normal_map(materials),
                         _check_node_graph(materials)>>
         IN  StageResult("pbr", StageStatusOf(checks), checks, <<>>, <<>>) :
            albedo \in _check_albedo_range(materials, config),
            metalness \in _check_metalness_binary(materials, config),
            roughness \in _check_roughness_range(materials, config)}

\* Bound of the PBR inputs.
MaxPBRMaterials == 2

\* Contexts of up to MaxPBRMaterials materials and a few mesh object lists,
\* with sample counts below and above the number of pixels there are.
PBRInputs ==
    LET NormalMapData(image_name, colorspace, pixels) ==
            [image_name |-> image_name, colorspace |-> colorspace, pixels |-> pixels]
        PBRMaterial(name, has_nodes, principled, spec_gloss, orphans, cycles,
                    albedo, metalness, roughness, normal_maps) ==
            [name |-> name, has_nodes |-> has_nodes, uses_principled_bsdf |-> principled,
             uses_spec_gloss |-> spec_gloss, orphan_image_node_count |-> orphans,
             has_node_cycles |-> cycles, albedo_pixels |-> albedo,
             metalness_pixels |-> metalness, roughness_pixels |-> roughness,
             normal_map_data |-> normal_maps]
        \* one pixel, its alpha 1.0
        Px(r, g, b) == <<r, g, b, PixelOne>>
        Grey == Px(5000000, 5000000, 5000000)
        Dark == Px(1000000, 1200000, 5000000)
        Bright == Px(9400000, 9500000, 9400000)
        Black == Px(0, 0, 0)
        White == Px(PixelOne, 9999995, 9999995)
        Edge == Px(9000000, 9999990, 9)
        Blue == Px(5000000, 5000000, PixelOne)
        samples == {PBRMaterial("Plain", TRUE, TRUE, FALSE, 0, FALSE, <<>>, <<>>, <<>>, <<>>),
                    PBRMaterial("Wood", TRUE, TRUE, FALSE, 0, FALSE,
                                Grey \o Grey \o Dark, Black \o White \o Grey, Grey \o Black \o White,
                                <<NormalMapData("wood_n", "Non-Color", Blue \o Blue)>>),
                    PBRMaterial("Chalk", TRUE, TRUE, FALSE, 1, TRUE,
                                Bright \o Grey, Edge \o Grey, White \o White \o Edge,
                                <<NormalMapData("chalk_n", "Non-Color", <<>>),
                                  NormalMapData("chalk_d", "Non-Color", <<5000000, 5000000, PixelOne>>)>>),
                    PBRMaterial("Slab", TRUE, TRUE, FALSE, 2, FALSE,
                                <<5000000, 5000000>>, Black \o Black \o Edge, Black \o <<0>>,
                                <<NormalMapData("slab_n", "sRGB", Blue \o Grey)>>),
                    PBRMaterial("Flat", TRUE, TRUE, FALSE, 0, FALSE,
                                Grey, White, Grey,
                                <<NormalMapData("flat_n", "Non-Color", Grey \o Blue \o Dark \o Bright)>>),
                    PBRMaterial("Legacy", TRUE, TRUE, TRUE, 0, FALSE, Grey, <<>>, <<>>, <<>>),
                    PBRMaterial("Glass", TRUE, FALSE, FALSE, 3, TRUE, <<>>, Grey, <<>>, <<>>),
                    PBRMaterial("Slot", FALSE, FALSE, FALSE, 0, FALSE, <<>>, <<>>, <<>>, <<>>)}
        PBRMeshObject(name, material_slot_count) ==
            [name |-> name, material_slot_count |-> material_slot_count]
        mesh_object_lists ==
            {<<>>,
             <<PBRMeshObject("Crate", 0)>>,
             <<PBRMeshObject("Crate", 3), PBRMeshObject("Lid", 3)>>,
             <<PBRMeshObject("Crate", 2), PBRMeshObject("Lid", 4), PBRMeshObject("Hinge", 4)>>}
        configs ==
            [max_material_slots : {3},
             albedo_min_srgb : {30},
             albedo_max_srgb : {240},
             albedo_sample_count : {1, 2, 1000},
             metalness_binary_threshold : {1000000}]
    IN  {[mesh_objects |-> objs, materials |-> mats] :
            objs \in mesh_object_lists, mats \in SeqsUpTo(samples, MaxPBRMaterials)}
        \X configs

\* check_pbr, called once on a fresh context
check_pbr ==
    /\ StageIdle
    /\ \E input \in PBRInputs :
          /\ stage_ctx' = input[1]
          /\ stage_config' = input[2]
          /\ stage_result' \in check_pbr_result(input[1], input[2])
    /\ UNCHANGED <<skinned_read, stage_perf>>
    /\ UNCHANGED <<aggVars, remVars, extVars>>

\* Bound of the number of calls on one context.
MaxPbrCalls == 2

NoInput == <<NoContext, NoConfig>>
PbrIdle ==
    /\ pbr_input = NoInput
    /\ pbr_results = <<>>

\* check_pbr, called once more on the same context and config
check_pbr_again ==
    /\ pbr_input # NoInput
    /\ Len(pbr_results) < MaxPbrCalls
    /\ \E result \in check_pbr_result(pbr_input[1], pbr_input[2]) :
          pbr_results' = Append(pbr_results, result)
    /\ UNCHANGED pbr_input
    /\ UNCHANGED <<aggVars, stageVars, remVars, uvVars, runVars, serVars, intakeVars, toolVars>>

PbrCallsNext == check_pbr_again

(***************************************************************************)
(* pipeline/scene.py                                                       *)
(*                                                                         *)
(* A regular expression is modelled by the object names it accepts, under  *)
(* re.match for the naming pattern and under re.search for the two suffix  *)
(* patterns.  vram_estimate_mb is the exact quotient <<bytes * 4, 8 * 1024 *)
(* * 1024 * 3>> that the float sum approximates.                           *)
(***************************************************************************)
\* pattern.match(name) is not None
SceneMatch(pattern, name) ==
    /\ pattern = "^[A-Za-z0-9_]+"
    /\ name \in {"Crate", "Crate_LOD0", "Crate_LOD", "Crate_Collision", "crate lid",
                 "Crate_LOD1.001"}

\* pattern.search(name) is not None
SceneSearch(pattern, name) ==
    \/ pattern = "_LOD\\d+$" /\ name \in {"Crate_LOD0"}
    \/ pattern = "_Collision$" /\ name \in {"Crate_Collision"}

_check_naming_conventions(mesh_objects, config) ==
    LET Violates(obj) == ~SceneMatch(config.object_naming_pattern, obj.name)
        bad == SelectSeq(mesh_objects, Violates)
        violations == [i \in DOMAIN bad |-> bad[i].name]
        count == Len(violations)
    IN  CheckResult("naming_conventions", IF count > 0 THEN "WARNING" ELSE "PASS",
                    [violations |-> violations, count |-> count])

_check_orphan_data(orphan_counts) ==
    LET total == orphan_counts.meshes + orphan_counts.materials + orphan_counts.images
    IN  CheckResult("orphan_data", IF total > 0 THEN "WARNING" ELSE "PASS", total)

_check_lod_presence(mesh_objects, config) ==
    LET IsLod(obj) == SceneSearch(config.lod_suffix_pattern, obj.name)
        count == Len(SelectSeq(mesh_objects, IsLod))
    IN  IF ~config.require_lod THEN CheckResult("lod_presence", "SKIPPED", 0)
        ELSE IF count = 0 THEN CheckResult("lod_presence", "FAIL", 0)
        ELSE CheckResult("lod_presence", "PASS", count)

_check_collision_presence(mesh_objects, config) ==
    LET IsCollision(obj) == SceneSearch(config.collision_suffix_pattern, obj.name)
        count == Len(SelectSeq(mesh_objects, IsCollision))
    IN  IF ~config.require_collision THEN CheckResult("collision_presence", "SKIPPED", 0)
        ELSE IF count = 0 THEN CheckResult("collision_presence", "FAIL", 0)
        ELSE CheckResult("collision_presence", "PASS", count)

_compute_performance(mesh_objects, armature_objects, unique_images) ==
    [triangle_count |->
         SumSeq([i \in DOMAIN mesh_objects |-> mesh_objects[i].triangle_count]),
     draw_call_estimate |->
         SumSeq([i \in DOMAIN mesh_objects |-> mesh_objects[i].material_slot_count]),
     vram_estimate_mb |->
         <<SumSeq([i \in DOMAIN unique_images |->
                      unique_images[i].width * unique_images[i].height
                      * unique_images[i].channels * unique_images[i].bit_depth * 4]),
           8 * 1024 * 1024 * 3>>,
     bone_count |->
         SumSeq([i \in DOMAIN armature_objects |-> armature_objects[i].bone_count])]

\* The pair check_scene returns.
check_scene_result(context, config) ==
    LET mesh_objects == context.mesh_objects
        checks == <<_check_naming_conventions(mesh_objects, config),
                    _check_orphan_data(context.orphan_counts),
                    _check_lod_presence(mesh_objects, config),
                    _check_collision_presence(mesh_objects, config)>>
        stage_result_ == StageResult("scene", StageStatusOf(checks), checks, <<>>, <<>>)
        perf == _compute_performance(mesh_objects, context.armature_objects,
                                     context.unique_images)
    IN  <<stage_result_, perf>>

\* Bound of the scene inputs.
MaxSceneObjects == 2

\* Contexts of up to MaxSceneObjects mesh objects, with and without
\* armatures, images and orphans; LOD and collision meshes required or not.
SceneInputs ==
    LET SceneMeshObject(name, triangle_count, material_slot_count) ==
            [name |-> name, triangle_count |-> triangle_count,
             material_slot_count |-> material_slot_count]
        SceneImage(width, height, channels, bit_depth) ==
            [width |-> width, height |-> height, channels |-> channels,
             bit_depth |-> bit_depth]
        objects == {SceneMeshObject("Crate", 1200, 1),
                    SceneMeshObject("Crate_LOD0", 600, 1),
                    SceneMeshObject("Crate_LOD", 300, 2),
                    SceneMeshObject("Crate_Collision", 12, 0),
                    SceneMeshObject("crate lid", 80, 1),
                    SceneMeshObject(".hidden", 0, 0),
                    SceneMeshObject("Crate_LOD1.001", 150, 3)}
        contexts ==
            [mesh_objects : SeqsUpTo(objects, MaxSceneObjects),
             armature_objects : {<<>>, <<[name |-> "Rig", bone_count |-> 20],
                                         [name |-> "Rig.001", bone_count |-> 0]>>},
             unique_images : {<<>>, <<SceneImage(1024, 1024, 4, 8)>>,
                              <<SceneImage(1, 1, 3, 8), SceneImage(2048, 512, 4, 16)>>},
             orphan_counts : {[meshes |-> 0, materials |-> 0, images |-> 0],
                              [meshes |-> 1, materials |-> 0, images |-> 2]}]
        configs ==
            [object_naming_pattern : {"^[A-Za-z0-9_]+"},
             require_lod : BOOLEAN,
             require_collision : BOOLEAN,
             lod_suffix_pattern : {"_LOD\\d+$"},
             collision_suffix_pattern : {"_Collision$"}]
    IN  contexts \X configs

\* check_scene, called once on a fresh context
check_scene ==
    /\ StageIdle
    /\ \E input \in SceneInputs :
          /\ stage_ctx' = input[1]
          /\ stage_config' = input[2]
          /\ stage_result' = check_scene_result(input[1], input[2])[1]
          /\ stage_perf' = check_scene_result(input[1], input[2])[2]
    /\ UNCHANGED skinned_read
    /\ UNCHANGED <<aggVars, remVars, extVars>>

\* One Stage-1 engine, whichever, is called.
Stage1Next ==
    \/ check_geometry
    \/ check_uvs
    \/ check_textures
    \/ check_pbr
    \/ check_armature
    \/ check_scene

(***************************************************************************)
(* pipeline/remediate.py                                                   *)
(*                                                                         *)
(* The scene behind a RemediationBlenderContext is                         *)
(* [mesh_objects, images, skinned_meshes].  A mesh object is               *)
(* [name, vertex_count, doubles], doubles being the vertices that          *)
(* remove_doubles would merge away; an image is [name, size]; a skinned    *)
(* mesh is [name, max_influences].  The mutation entry points change the   *)
(* scene as Blender does: scale sets the size, merge_by_distance removes   *)
(* the doubles, limit_bone_weights caps every mesh's influences.           *)
(***************************************************************************)
RemediationMeshObject(name, vertex_count, doubles) ==
    [name |-> name, vertex_count |-> vertex_count, doubles |-> doubles]
RemediationImage(name, size) == [name |-> name, size |-> size]
RemediationSkinnedMesh(name, max_influences) ==
    [name |-> name, max_influences |-> max_influences]

Max(a, b) == IF a >= b THEN a ELSE b
Min(a, b) == IF a <= b THEN a ELSE b

\* _find_check returns None
NoCheck == CheckResult("None", "None", 0)

RECURSIVE FirstCheckNamed(_, _)
FirstCheckNamed(checks, check_name) ==
    IF checks = <<>> THEN NoCheck
    ELSE IF checks[1].name = check_name THEN checks[1]
    ELSE FirstCheckNamed(Tail(checks), check_name)

RECURSIVE _find_check(_, _, _)
_find_check(stage1_results, stage_name, check_name) ==
    IF stage1_results = <<>> THEN NoCheck
    ELSE IF /\ stage1_results[1].name = stage_name
            /\ FirstCheckNamed(stage1_results[1].checks, check_name) # NoCheck
    THEN FirstCheckNamed(stage1_results[1].checks, check_name)
    ELSE _find_check(Tail(stage1_results), stage_name, check_name)

\* check and check.status == status
CheckIs(stage1_results, stage_name, check_name, status) ==
    LET check == _find_check(stage1_results, stage_name, check_name)
    IN  check # NoCheck /\ check.status = status

RECURSIVE LargestPotLoop(_, _)
LargestPotLoop(pot, n) == IF pot * 2 <= n THEN LargestPotLoop(pot * 2, n) ELSE pot

_largest_pot(n) == IF n <= 0 THEN 1 ELSE LargestPotLoop(1, n)

(***************************************************************************)
(* IEEE-754 binary64 arithmetic, as far as _compute_new_size uses it       *)
(*                                                                         *)
(* A positive double is [mant, exp].  mant is its 53-bit significand       *)
(* written as five digits <<1, l1, l2, l3, l4>>: the leading bit, then     *)
(* four digits of LimbBits bits each; its value is                         *)
(*     (2^52 + l1*2^39 + l2*2^26 + l3*2^13 + l4) * 2^(exp - 52).           *)
(* Division and multiplication round to nearest, ties to even, as the      *)
(* hardware does; int() truncates.  The operators are exact for operands   *)
(* up to 2^LimbBits.                                                           *)
(***************************************************************************)
LimbBits == 13
Limb == 2^LimbBits

\* Round a significand whose discarded part is described by guard (the first
\* discarded bit) and sticky (any later discarded bit set).
RoundLimbs(l1, l2, l3, l4, guard, sticky, exp) ==
    LET up == guard /\ (sticky \/ l4 % 2 = 1)
        n4 == IF up THEN l4 + 1 ELSE l4
        n3 == l3 + n4 \div Limb
        n2 == l2 + n3 \div Limb
        n1 == l1 + n2 \div Limb
    IN  IF n1 \div Limb = 1
        THEN [mant |-> <<1, 0, 0, 0, 0>>, exp |-> exp + 1]
        ELSE [mant |-> <<1, n1, n2 % Limb, n3 % Limb, n4 % Limb>>, exp |-> exp]

\* float(t) / float(m) for integers t, m >= 1: bring t / m into [1, 2), then
\* long division, LimbBits quotient bits at a time.
RECURSIVE FloatDivNorm(_, _, _)
FloatDivNorm(t, m, exp) ==
    IF t < m THEN FloatDivNorm(2 * t, m, exp - 1)
    ELSE IF t >= 2 * m THEN FloatDivNorm(t, 2 * m, exp + 1)
    ELSE LET r0 == t - m
             q1 == (r0 * Limb) \div m
             r1 == (r0 * Limb) % m
             q2 == (r1 * Limb) \div m
             r2 == (r1 * Limb) % m
             q3 == (r2 * Limb) \div m
             r3 == (r2 * Limb) % m
             q4 == (r3 * Limb) \div m
             r4 == (r3 * Limb) % m
             guard == 2 * r4 >= m
             sticky == 2 * r4 # 0 /\ 2 * r4 # m
         IN  RoundLimbs(q1, q2, q3, q4, guard, sticky, exp)

FloatDiv(t, m) == FloatDivNorm(t, m, 0)

\* The number of bits of n >= 1.
RECURSIVE BitLength(_)
BitLength(n) == IF n <= 1 THEN 1 ELSE 1 + BitLength(n \div 2)

\* float(w) * f for an integer 1 <= w <= 2^LimbBits and a double f: the exact
\* product, then the s bits beyond the 53rd rounded away.
FloatMulInt(w, f) ==
    LET p4 == f.mant[5] * w
        p3 == f.mant[4] * w + p4 \div Limb
        p2 == f.mant[3] * w + p3 \div Limb
        p1 == f.mant[2] * w + p2 \div Limb
        top == w + p1 \div Limb
        e1 == p1 % Limb
        e2 == p2 % Limb
        e3 == p3 % Limb
        e4 == p4 % Limb
        s == BitLength(top) - 1
        lo == 2^s
        hi == 2^(LimbBits - s)
        l1 == (top % lo) * hi + e1 \div lo
        l2 == (e1 % lo) * hi + e2 \div lo
        l3 == (e2 % lo) * hi + e3 \div lo
        l4 == (e3 % lo) * hi + e4 \div lo
        dropped == e4 % lo
        guard == s >= 1 /\ dropped >= 2^(s - 1)
        sticky == s >= 1 /\ dropped % 2^(s - 1) # 0
    IN  RoundLimbs(l1, l2, l3, l4, guard, sticky, f.exp + s)

\* int(f): the integer part of a positive double below 2^(2 * LimbBits).
FloatToInt(f) ==
    IF f.exp < 0 THEN 0
    ELSE IF f.exp <= LimbBits
    THEN 2^f.exp + f.mant[2] \div 2^(LimbBits - f.exp)
    ELSE (Limb + f.mant[2]) * 2^(f.exp - LimbBits)
         + f.mant[3] \div 2^(2 * LimbBits - f.exp)

\* int(w * scale) with scale = target / max_dim, for max_dim >= 1.
ScaledDim(w, target, max_dim) ==
    IF w = 0 THEN 0 ELSE FloatToInt(FloatMulInt(w, FloatDiv(target, max_dim)))

_compute_new_size(w, h, limit) ==
    LET max_dim == Max(w, h)
        target == _largest_pot(limit)
    IN  <<_largest_pot(ScaledDim(w, target, max_dim)),
          _largest_pot(ScaledDim(h, target, max_dim))>>

\* (stage_name, check_name, trigger_status, severity)
ReviewRule(stage_name, check_name, trigger_status, severity) ==
    [stage_name |-> stage_name, check_name |-> check_name,
     trigger_status |-> trigger_status, severity |-> severity]

_REVIEW_RULES ==
    <<ReviewRule("uv", "uv_overlap", "FAIL", "WARNING"),
      ReviewRule("pbr", "albedo_range", "WARNING", "WARNING"),
      ReviewRule("pbr", "metalness_binary", "WARNING", "WARNING"),
      ReviewRule("pbr", "roughness_range", "WARNING", "WARNING"),
      ReviewRule("geometry", "non_manifold", "FAIL", "ERROR"),
      ReviewRule("geometry", "interior_faces", "FAIL", "ERROR"),
      ReviewRule("uv", "texel_density", "WARNING", "WARNING"),
      ReviewRule("scene", "lod_presence", "FAIL", "WARNING")>>

\* f"{stage_name}:{check_name}"
IssueKey(stage_name, check_name) == stage_name \o ":" \o check_name

\* Mutant of _collect_review_flags: a rule fires on any status but PASS.
_collect_review_flags_any_status(stage1_results) ==
    LET Triggered(rule) ==
            LET check == _find_check(stage1_results, rule.stage_name, rule.check_name)
            IN  check # NoCheck /\ check.status # "PASS"
        hit == SelectSeq(_REVIEW_RULES, Triggered)
        flags == [i \in DOMAIN hit |->
                     ReviewFlag(IssueKey(hit[i].stage_name, hit[i].check_name),
                                hit[i].severity)]
    IN  IF CheckIs(stage1_results, "geometry", "polycount_budget", "FAIL")
        THEN Append(flags, ReviewFlag("geometry:polycount_budget", "ERROR"))
        ELSE flags

_collect_review_flags(stage1_results) ==
    LET Triggered(rule) ==
            CheckIs(stage1_results, rule.stage_name, rule.check_name, rule.trigger_status)
        hit == SelectSeq(_REVIEW_RULES, Triggered)
        flags == [i \in DOMAIN hit |->
                     ReviewFlag(IssueKey(hit[i].stage_name, hit[i].check_name),
                                hit[i].severity)]
    IN  IF CheckIs(stage1_results, "geometry", "polycount_budget", "FAIL")
        THEN Append(flags, ReviewFlag("geometry:polycount_budget", "ERROR"))
        ELSE flags

\* The texture limit run_remediation resolves.
HeroResolution == 4096
ResizeLimit(config) ==
    IF config.hero_asset THEN HeroResolution ELSE config.max_texture_resolution

\* Mutant of OverLimit: an image exactly at the limit counts as oversized.
OverLimitInclusive(img, limit) == img.size[1] >= limit \/ img.size[2] >= limit

\* w > limit or h > limit
OverLimit(img, limit) == img.size[1] > limit \/ img.size[2] > limit
Resized(img, limit) == _compute_new_size(img.size[1], img.size[2], limit)

\* Mutant of NeedsNormals: a WARNING triggers the fix as well.
NeedsNormalsOnWarning(stage1_results) ==
    \/ CheckIs(stage1_results, "geometry", "normal_consistency", "FAIL")
    \/ CheckIs(stage1_results, "geometry", "normal_consistency", "WARNING")

\* Mutant of NeedsMerge: the fix is applied whenever both checks were run,
\* whatever their status.
NeedsMergeWhenChecked(stage1_results) ==
    /\ _find_check(stage1_results, "geometry", "degenerate_faces") # NoCheck
    /\ _find_check(stage1_results, "geometry", "loose_geometry") # NoCheck

\* The four triggers.
NeedsNormals(stage1_results) ==
    CheckIs(stage1_results, "geometry", "normal_consistency", "FAIL")
NeedsMerge(stage1_results) ==
    \/ CheckIs(stage1_results, "geometry", "degenerate_faces", "FAIL")
    \/ CheckIs(stage1_results, "geometry", "loose_geometry", "FAIL")
NeedsResize(stage1_results) ==
    CheckIs(stage1_results, "texture", "resolution_limit", "FAIL")
NeedsWeightLimit(stage1_results) ==
    CheckIs(stage1_results, "armature", "vertex_weights", "FAIL")

\* max((m.max_influences() for m in skinned), default=0)
RECURSIVE MaxInfluences(_)
MaxInfluences(skinned) ==
    IF skinned = <<>> THEN 0
    ELSE Max(skinned[1].max_influences, MaxInfluences(Tail(skinned)))

\* The fixes list run_remediation builds, in the order it appends.
RemediationFixes(scene, stage1_results, config) ==
    LET meshes == scene.mesh_objects
        limit == ResizeLimit(config)
        IsOver(img) == OverLimit(img, limit)
        over == SelectSeq(scene.images, IsOver)
        before_count ==
            _find_check(stage1_results, "geometry", "normal_consistency").measured_value
        fix1 == IF NeedsNormals(stage1_results)
                THEN [i \in DOMAIN meshes |->
                         FixEntry("recalculate_normals", meshes[i].name, before_count, 0)]
                ELSE <<>>
        fix2 == IF NeedsMerge(stage1_results)
                THEN [i \in DOMAIN meshes |->
                         FixEntry("merge_by_distance", meshes[i].name,
                                  meshes[i].vertex_count,
                                  meshes[i].vertex_count - meshes[i].doubles)]
                ELSE <<>>
        fix3 == IF NeedsResize(stage1_results)
                THEN [i \in DOMAIN over |->
                         FixEntry("resize_textures", over[i].name, over[i].size,
                                  Resized(over[i], limit))]
                ELSE <<>>
        fix4 == IF NeedsWeightLimit(stage1_results)
                THEN <<FixEntry("limit_bone_weights", "scene",
                                MaxInfluences(scene.skinned_meshes),
                                config.max_bone_influences)>>
                ELSE <<>>
    IN  fix1 \o fix2 \o fix3 \o fix4

\* The mutation calls run_remediation makes, in order.
MutationCall(op, target, args) == [op |-> op, target |-> target, args |-> args]
RemediationCalls(scene, stage1_results, config) ==
    LET meshes == scene.mesh_objects
        limit == ResizeLimit(config)
        IsOver(img) == OverLimit(img, limit)
        over == SelectSeq(scene.images, IsOver)
    IN  (IF NeedsNormals(stage1_results)
         THEN [i \in DOMAIN meshes |->
                  MutationCall("recalculate_normals", meshes[i].name, <<>>)]
         ELSE <<>>)
        \o (IF NeedsMerge(stage1_results)
            THEN [i \in DOMAIN meshes |->
                     MutationCall("merge_by_distance", meshes[i].name, <<>>)]
            ELSE <<>>)
        \o (IF NeedsResize(stage1_results)
            THEN [i \in DOMAIN over |->
                     MutationCall("scale", over[i].name, Resized(over[i], limit))]
            ELSE <<>>)
        \o (IF NeedsWeightLimit(stage1_results)
            THEN <<MutationCall("limit_bone_weights", "scene",
                                <<config.max_bone_influences>>)>>
            ELSE <<>>)

\* The scene the calls leave behind.
SceneAfter(scene, stage1_results, config) ==
    LET limit == ResizeLimit(config)
    IN  [mesh_objects |->
            [i \in DOMAIN scene.mesh_objects |->
                IF NeedsMerge(stage1_results)
                THEN [scene.mesh_objects[i] EXCEPT
                         !.vertex_count = @ - scene.mesh_objects[i].doubles,
                         !.doubles = 0]
                ELSE scene.mesh_objects[i]],
         images |->
            [i \in DOMAIN scene.images |->
                IF NeedsResize(stage1_results) /\ OverLimit(scene.images[i], limit)
                THEN [scene.images[i] EXCEPT !.size = Resized(scene.images[i], limit)]
                ELSE scene.images[i]],
         skinned_meshes |->
            [i \in DOMAIN scene.skinned_meshes |->
                IF NeedsWeightLimit(stage1_results)
                THEN [scene.skinned_meshes[i] EXCEPT
                         !.max_influences = Min(@, config.max_bone_influences)]
                ELSE scene.skinned_meshes[i]]]

\* Mutant of run_remediation_result: the stage fails when a check failed upstream.
run_remediation_failing(scene, stage1_results, config) ==
    StageResult("remediation",
                IF \E i \in DOMAIN stage1_results : stage1_results[i].status = "FAIL"
                THEN "FAIL" ELSE "PASS",
                <<>>,
                RemediationFixes(scene, stage1_results, config),
                _collect_review_flags(stage1_results))

\* The value run_remediation returns.
run_remediation_result(scene, stage1_results, config) ==
    StageResult("remediation", "PASS", <<>>,
                RemediationFixes(scene, stage1_results, config),
                _collect_review_flags(stage1_results))

\* The checks each Stage-1 engine returns, in the order run_checks calls them.
EngineChecks ==
    <<[name |-> "geometry",
       checks |-> <<"polycount_budget", "non_manifold", "degenerate_faces",
                    "normal_consistency", "loose_geometry", "interior_faces">>],
      [name |-> "uv",
       checks |-> <<"missing_uvs", "uv_bounds", "uv_overlap", "texel_density",
                    "lightmap_uv2">>],
      [name |-> "texture",
       checks |-> <<"missing_textures", "resolution_limit", "power_of_two",
                    "texture_count", "channel_depth", "color_space">>],
      [name |-> "pbr",
       checks |-> <<"pbr_workflow", "material_slots", "albedo_range",
                    "metalness_binary", "roughness_range", "normal_map",
                    "node_graph">>],
      [name |-> "armature",
       checks |-> <<"armature_present", "bone_count", "bone_naming",
                    "vertex_weights", "bone_hierarchy">>],
      [name |-> "scene",
       checks |-> <<"naming_conventions", "orphan_data", "lod_presence",
                    "collision_presence">>]>>

CheckKeys ==
    UNION {{<<EngineChecks[i].name, EngineChecks[i].checks[j]>> :
               j \in DOMAIN EngineChecks[i].checks} : i \in DOMAIN EngineChecks}

\* Stage-1 results in which every check has the status `base`, except the
\* checks named in `dev`, a set of <<key, status>> pairs.
MaxDeviations == 1

RECURSIVE DeviationsUpTo(_)
DeviationsUpTo(n) ==
    IF n = 0 THEN {{}}
    ELSE LET fewer == DeviationsUpTo(n - 1)
         IN  fewer \cup
             {d \cup {<<k, st>>} :
                 d \in {e \in fewer : Cardinality(e) = n - 1},
                 k \in CheckKeys, st \in CheckStatus}

DistinctKeys(dev) == \A x, y \in dev : x[1] = y[1] => x = y

StatusIn(dev, key, base) ==
    IF \E d \in dev : d[1] = key THEN (CHOOSE d \in dev : d[1] = key)[2] ELSE base

StageFrom(engine, base, dev) ==
    LET checks == [j \in DOMAIN engine.checks |->
                      CheckResult(engine.checks[j],
                                  StatusIn(dev, <<engine.name, engine.checks[j]>>, base),
                                  3)]
    IN  StageResult(engine.name, StageStatusOf(checks), checks, <<>>, <<>>)

Stage1From(base, dev) ==
    [i \in DOMAIN EngineChecks |-> StageFrom(EngineChecks[i], base, dev)]

\* Results of other shapes: none at all, the armature engine's early exit, and
\* lists in which a stage name occurs twice.
Stage1Oddities ==
    { <<>>,
      [Stage1From("FAIL", {}) EXCEPT
          ![5] = StageResult("armature", "SKIPPED",
                             <<CheckResult("armature_present", "SKIPPED", 0)>>,
                             <<>>, <<>>)],
      <<StageResult("geometry", "PASS",
                    <<CheckResult("polycount_budget", "PASS", 3)>>, <<>>, <<>>)>>
          \o Stage1From("FAIL", {}),
      Stage1From("PASS", {}) \o Stage1From("FAIL", {}) }

Stage1Samples ==
    {Stage1From(base, dev) :
        base \in CheckStatus,
        dev \in {d \in DeviationsUpTo(MaxDeviations) : DistinctKeys(d)}}
    \cup Stage1Oddities

\* Scenes and configurations for a remediation run.
MeshObjectLists ==
    { <<>>,
      <<RemediationMeshObject("Cube", 8, 0)>>,
      <<RemediationMeshObject("Cube", 8, 2), RemediationMeshObject("Plane", 4, 0)>> }

ImageLists ==
    { <<>>,
      <<RemediationImage("big", <<16, 8>>)>>,
      <<RemediationImage("small", <<4, 2>>), RemediationImage("huge", <<8192, 4096>>)>> }

SkinnedMeshLists ==
    { <<>>,
      <<RemediationSkinnedMesh("Body", 6)>>,
      <<RemediationSkinnedMesh("Body", 2), RemediationSkinnedMesh("Head", 5)>> }

\* A scene has lists of one length, or a single list that is not empty.
RemediationScenes ==
    {scene \in [mesh_objects : MeshObjectLists, images : ImageLists,
                skinned_meshes : SkinnedMeshLists] :
        LET lens == <<Len(scene.mesh_objects), Len(scene.images), Len(scene.skinned_meshes)>>
        IN  \/ lens[1] = lens[2] /\ lens[2] = lens[3]
            \/ Cardinality({k \in 1..3 : lens[k] > 0}) = 1}

\* merge_distance counts units of 0.0001.
RemediationConfigs ==
    [merge_distance : {1},
     max_bone_influences : {4},
     max_texture_resolution : {4},
     hero_asset : BOOLEAN]

\* Scenes for the resize fix: up to MaxSceneImages images, each sample under a
\* name of its own.  They are within and beyond the limits below, and hold the
\* sizes whose scale factor is inexact in binary64 (49 and 98).
MaxSceneImages == 2
MaxRuns == 2

ResizeImageSamples ==
    { RemediationImage("i1x1", <<1, 1>>),
      RemediationImage("i4x2", <<4, 2>>),
      RemediationImage("i6x6", <<6, 6>>),
      RemediationImage("i8x8", <<8, 8>>),
      RemediationImage("i16x4", <<16, 4>>),
      RemediationImage("i0x9", <<0, 9>>),
      RemediationImage("i49x49", <<49, 49>>),
      RemediationImage("i98x7", <<98, 7>>),
      RemediationImage("i2215x2215", <<2215, 2215>>),
      RemediationImage("i4900x4900", <<4900, 4900>>),
      RemediationImage("i8192x4096", <<8192, 4096>>) }

ResizeScenes ==
    [mesh_objects : {<<RemediationMeshObject("Cube", 8, 2)>>},
     images : SeqsUpTo(ResizeImageSamples, MaxSceneImages),
     skinned_meshes : {<<RemediationSkinnedMesh("Body", 6)>>}]

ResizeConfigs ==
    {c \in [merge_distance : {1},
            max_bone_influences : {4},
            max_texture_resolution : {2, 4, 6, 2048},
            hero_asset : BOOLEAN] :
        c.hero_asset => c.max_texture_resolution = 2048}

ResizeStage1Samples ==
    { Stage1From("PASS", {}),
      Stage1From("PASS", {<<<<"texture", "resolution_limit">>, "FAIL">>}),
      Stage1From("FAIL", {}) }

NoScene == [none |-> TRUE]
RemIdle ==
    /\ rem_scene = NoScene
    /\ rem_config = NoConfig
    /\ rem_stage1 = <<>>
    /\ rem_before = NoScene
    /\ rem_calls = <<>>
    /\ rem_result = NoResult
    /\ rem_runs = 0

\* A scene and a config exist; run_remediation has not been called.
RemStart(scene, config) ==
    /\ rem_scene = scene
    /\ rem_config = config
    /\ rem_stage1 = <<>>
    /\ rem_before = scene
    /\ rem_calls = <<>>
    /\ rem_result = NoResult
    /\ rem_runs = 0

\* What a call of run_remediation does to the scene and returns.
RemediationRun(stage1_results) ==
    /\ rem_result' = run_remediation_result(rem_scene, stage1_results, rem_config)
    /\ rem_scene' = SceneAfter(rem_scene, stage1_results, rem_config)
    /\ rem_calls' = RemediationCalls(rem_scene, stage1_results, rem_config)
    /\ rem_before' = rem_scene
    /\ rem_stage1' = stage1_results
    /\ rem_runs' = rem_runs + 1
    /\ UNCHANGED rem_config

\* run_remediation
run_remediation(stage1_results) ==
    /\ RemediationRun(stage1_results)
    /\ UNCHANGED <<aggVars, stageVars, extVars>>

\* One run per pipeline run, on any Stage-1 results.
RemNext ==
    /\ rem_runs = 0
    /\ \E stage1_results \in Stage1Samples : run_remediation(stage1_results)

\* Repeated runs on the same scene.
ResizeNext ==
    /\ rem_runs < MaxRuns
    /\ \E stage1_results \in ResizeStage1Samples : run_remediation(stage1_results)

(***************************************************************************)
(* pipeline/schema.py: QaReport.to_dict and QaReport.from_dict             *)
(*                                                                         *)
(* Here a report carries every field of schema.py.  An enum member is      *)
(* written "Class.NAME" and its .value is the plain string "NAME", so that *)
(* a member and its value are different things; None is the record None.   *)
(* A dict is a record of its keys.  measured_value, threshold and the fix  *)
(* values are handed through as the same object in both directions.        *)
(***************************************************************************)
None == [none |-> TRUE]

EnumMember(class, name) == class \o "." \o name

\* member.value
EnumValue(class, values, member) ==
    IF \E v \in values : member = EnumMember(class, v)
    THEN CHOOSE v \in values : member = EnumMember(class, v)
    ELSE "AttributeError"

\* Class(value): the member with that value; a member is returned as it is.
EnumCall(class, values, value) ==
    IF value \in values THEN EnumMember(class, value)
    ELSE IF \E v \in values : value = EnumMember(class, v) THEN value
    ELSE "ValueError"

\* QaReport.to_dict
to_dict(self) ==
    LET check_to_dict(c) ==
            [name |-> c.name,
             status |-> EnumValue("CheckStatus", CheckStatus, c.status),
             measured_value |-> c.measured_value,
             threshold |-> c.threshold,
             message |-> c.message]
        fix_to_dict(f) ==
            [action |-> f.action, target |-> f.target,
             before_value |-> f.before_value, after_value |-> f.after_value]
        flag_to_dict(r) ==
            [issue |-> r.issue,
             severity |-> EnumValue("Severity", Severity, r.severity),
             description |-> r.description]
        stage_to_dict(st) ==
            [name |-> st.name,
             status |-> EnumValue("StageStatus", StageStatus, st.status),
             checks |-> [i \in DOMAIN st.checks |-> check_to_dict(st.checks[i])],
             fixes |-> [i \in DOMAIN st.fixes |-> fix_to_dict(st.fixes[i])],
             review_flags |->
                 [i \in DOMAIN st.review_flags |-> flag_to_dict(st.review_flags[i])]]
    IN  [metadata |->
            [asset_id |-> self.metadata.asset_id,
             source |-> self.metadata.source,
             category |-> self.metadata.category,
             submission_date |-> self.metadata.submission_date,
             processing_timestamp |-> self.metadata.processing_timestamp,
             submitter |-> self.metadata.submitter],
         overall_status |-> EnumValue("OverallStatus", OverallStatus, self.overall_status),
         stages |-> [i \in DOMAIN self.stages |-> stage_to_dict(self.stages[i])],
         performance |->
            IF self.performance # None
            THEN [triangle_count |-> self.performance.triangle_count,
                  draw_call_estimate |-> self.performance.draw_call_estimate,
                  vram_estimate_mb |-> self.performance.vram_estimate_mb,
                  bone_count |-> self.performance.bone_count]
            ELSE None,
         export |->
            IF self.export # None
            THEN [format |-> self.export.format,
                  path |-> self.export.path,
                  axis_convention |-> self.export.axis_convention,
                  scale |-> self.export.scale]
            ELSE None]

\* The stages list from_dict builds.
StagesFromDict(d) ==
    LET Check(c) ==
            [name |-> c.name,
             status |-> EnumCall("CheckStatus", CheckStatus, c.status),
             measured_value |-> c.measured_value,
             threshold |-> c.threshold,
             message |-> c.message]
        Fix(f) ==
            [action |-> f.action, target |-> f.target,
             before_value |-> f.before_value, after_value |-> f.after_value]
        Flag(r) ==
            [issue |-> r.issue,
             severity |-> EnumCall("Severity", Severity, r.severity),
             description |-> r.description]
        Stage(st) ==
            [name |-> st.name,
             status |-> EnumCall("StageStatus", StageStatus, st.status),
             checks |-> [i \in DOMAIN st.checks |-> Check(st.checks[i])],
             fixes |-> [i \in DOMAIN st.fixes |-> Fix(st.fixes[i])],
             review_flags |-> [i \in DOMAIN st.review_flags |-> Flag(st.review_flags[i])]]
    IN  [i \in DOMAIN d.stages |-> Stage(d.stages[i])]

\* Mutant of from_dict: the export block is not read back.
from_dict_without_export(d) ==
    [metadata |->
        [asset_id |-> d.metadata.asset_id,
         source |-> d.metadata.source,
         category |-> d.metadata.category,
         submission_date |-> d.metadata.submission_date,
         processing_timestamp |-> d.metadata.processing_timestamp,
         submitter |-> d.metadata.submitter],
     overall_status |-> EnumCall("OverallStatus", OverallStatus, d.overall_status),
     stages |-> StagesFromDict(d),
     performance |->
        IF d.performance # None
        THEN [triangle_count |-> d.performance.triangle_count,
              draw_call_estimate |-> d.performance.draw_call_estimate,
              vram_estimate_mb |-> d.performance.vram_estimate_mb,
              bone_count |-> d.performance.bone_count]
        ELSE None,
     export |-> None]

\* QaReport.from_dict
from_dict(d) ==
    [metadata |->
        [asset_id |-> d.metadata.asset_id,
         source |-> d.metadata.source,
         category |-> d.metadata.category,
         submission_date |-> d.metadata.submission_date,
         processing_timestamp |-> d.metadata.processing_timestamp,
         submitter |-> d.metadata.submitter],
     overall_status |-> EnumCall("OverallStatus", OverallStatus, d.overall_status),
     stages |-> StagesFromDict(d),
     performance |->
        IF d.performance # None
        THEN [triangle_count |-> d.performance.triangle_count,
              draw_call_estimate |-> d.performance.draw_call_estimate,
              vram_estimate_mb |-> d.performance.vram_estimate_mb,
              bone_count |-> d.performance.bone_count]
        ELSE None,
     export |->
        IF d.export # None
        THEN [format |-> d.export.format,
              path |-> d.export.path,
              axis_convention |-> d.export.axis_convention,
              scale |-> d.export.scale]
        ELSE None]

\* Reports of up to MaxReportStages stages.  The stage samples hold no check,
\* checks whose measured_value is a number, a string or a mapping and whose
\* threshold is absent, fixes with number and list values, and flags.
\* vram_estimate_mb and scale are written as <<numerator, denominator>>.
MaxReportStages == 2

QaReportSamples ==
    LET Member(class, name) == EnumMember(class, name)
        Check(name, status, measured_value, threshold, message) ==
            [name |-> name, status |-> Member("CheckStatus", status),
             measured_value |-> measured_value, threshold |-> threshold,
             message |-> message]
        Fix(action, target, before_value, after_value) ==
            [action |-> action, target |-> target,
             before_value |-> before_value, after_value |-> after_value]
        Flag(issue, severity, description) ==
            [issue |-> issue, severity |-> Member("Severity", severity),
             description |-> description]
        Stage(name, status, checks, fixes, review_flags) ==
            [name |-> name, status |-> Member("StageStatus", status),
             checks |-> checks, fixes |-> fixes, review_flags |-> review_flags]
        stages ==
            { Stage("armature", "SKIPPED",
                    <<Check("armature_present", "SKIPPED", 0, None, "No armature")>>,
                    <<>>, <<>>),
              Stage("geometry", "FAIL",
                    <<Check("polycount_budget", "FAIL", 7000, <<500, 5000>>, "over budget"),
                      Check("non_manifold", "PASS", 0, 0, "OK")>>,
                    <<>>, <<>>),
              Stage("texture", "PASS",
                    <<Check("color_space", "WARNING", [violations |-> <<"wood_normal">>],
                            None, "1 image(s) with unexpected color space"),
                      Check("pbr_workflow", "PASS", "metal_rough", "metal_rough", "")>>,
                    <<>>, <<>>),
              Stage("remediation", "PASS", <<>>,
                    <<Fix("merge_by_distance", "Cube", 8, 6),
                      Fix("resize_textures", "huge", <<8192, 4096>>, <<4, 2>>)>>,
                    <<Flag("geometry:non_manifold", "ERROR", "Non-manifold geometry"),
                      Flag("uv:uv_overlap", "WARNING", "UV islands overlap"),
                      Flag("note", "INFO", "")>>) }
        metadata ==
            [asset_id |-> "0b8f5c2e", source |-> "crate.glb", category |-> "env_prop",
             submission_date |-> "2026-02-19",
             processing_timestamp |-> "2026-02-19T12:00:00Z", submitter |-> "artist"]
        performance ==
            [triangle_count |-> 1000, draw_call_estimate |-> 2,
             vram_estimate_mb |-> <<9, 2>>, bone_count |-> 0]
        export ==
            [format |-> "glTF", path |-> "/output/asset.glb",
             axis_convention |-> "Y_UP", scale |-> <<1, 1>>]
    IN  [metadata : {metadata},
         overall_status : {Member("OverallStatus", v) : v \in OverallStatus},
         stages : SeqsUpTo(stages, MaxReportStages),
         performance : {None, performance},
         export : {None, export}]

SerIdle ==
    /\ ser_report = None
    /\ ser_dict = None
    /\ ser_restored = None

\* d = report.to_dict()
call_to_dict ==
    /\ ser_report # None
    /\ ser_dict = None
    /\ ser_dict' = to_dict(ser_report)
    /\ UNCHANGED <<ser_report, ser_restored>>
    /\ UNCHANGED <<aggVars, stageVars, remVars, uvVars, runVars, intakeVars, pbrVars, toolVars>>

\* restored = QaReport.from_dict(d)
call_from_dict ==
    /\ ser_dict # None
    /\ ser_restored = None
    /\ ser_restored' = from_dict(ser_dict)
    /\ UNCHANGED <<ser_report, ser_dict>>
    /\ UNCHANGED <<aggVars, stageVars, remVars, uvVars, runVars, intakeVars, pbrVars, toolVars>>

RoundTripNext ==
    \/ call_to_dict
    \/ call_from_dict

(***************************************************************************)
(* pipeline/intake.py                                                      *)
(*                                                                         *)
(* The file system is the table FileSizes of the files that exist, with    *)
(* their sizes in bytes.  A UUID is a number and str() of it the text      *)
(* UuidText gives; uuid.uuid4() draws 122 random bits and is modelled as   *)
(* returning a UUID it has not returned before.  intake.py hands the       *)
(* builder the AssetMetadata as one object, where report_builder.py takes  *)
(* its six fields one by one.                                              *)
(***************************************************************************)
ACCEPTED_EXTENSIONS == {".fbx", ".gltf", ".glb", ".obj"}

\* Path(file_path).suffix.lower()
SuffixLower(file_path) ==
    CASE file_path = "crate.glb" -> ".glb"
      [] file_path = "Crate.GLB" -> ".glb"
      [] file_path = "big.obj" -> ".obj"
      [] file_path = "missing.fbx" -> ".fbx"
      [] file_path = "crate.blend" -> ".blend"
      [] file_path = "crate" -> ""

\* path.exists() and path.stat().st_size
FileSizes ==
    ("crate.glb" :> 400) @@ ("Crate.GLB" :> 600) @@ ("big.obj" :> 20000)
        @@ ("crate.blend" :> 100) @@ ("crate" :> 50)

\* str(uuid): the texts of the UUIDs 1, 2, ...
UuidText ==
    <<"6f1c0b62-52d4-4a3e-9b0a-0d4f6a3f9c11", "0b8f5c2e-7a10-4c55-8e21-b1a2c3d4e5f6",
      "c2a4e6f8-1b3d-4f5a-8c7e-9d0b1a2c3e4f", "9e8d7c6b-5a49-4382-b716-05f4e3d2c1b0">>

\* datetime.now(timezone.utc): <<date().isoformat(), isoformat()>>
ClockSamples ==
    { <<"2026-02-19", "2026-02-19T12:00:00+00:00">>,
      <<"2026-02-20", "2026-02-20T00:00:01+00:00">> }

\* _build_report
_build_report(asset_id, config, now, stage_status, checks) ==
    LET metadata == [asset_id |-> asset_id,
                     source |-> config.source,
                     category |-> config.category,
                     submission_date |-> now[1],
                     processing_timestamp |-> now[2],
                     submitter |-> config.submitter]
        stage == StageResult("intake", stage_status, checks, <<>>, <<>>)
    IN  [metadata |-> metadata,
         overall_status |-> _compute_status(<<stage>>),
         stages |-> <<stage>>,
         performance |-> None,
         export |-> None]

\* Mutant of IntakeChecks: no return after a failed check, every check that
\* can be evaluated is, and the stage fails when one of them does.
intake_checks_no_early_return(config) ==
    LET ext == SuffixLower(config.file_path)
        exists == config.file_path \in DOMAIN FileSizes
        format == CheckResult("format",
                      IF ext \in ACCEPTED_EXTENSIONS THEN "PASS" ELSE "FAIL", ext)
        file_exists == CheckResult("file_exists",
                           IF exists THEN "PASS" ELSE "FAIL", config.file_path)
        file_size == IF exists
                     THEN <<CheckResult("file_size",
                                IF FileSizes[config.file_path] > config.hard_max_bytes
                                THEN "FAIL" ELSE "PASS", FileSizes[config.file_path])>>
                     ELSE <<>>
        checks == <<format, file_exists>> \o file_size
    IN  <<IF \E k \in DOMAIN checks : checks[k].status = "FAIL" THEN "FAIL" ELSE "PASS",
          checks>>

\* The checks and the stage status run_intake arrives at.
IntakeChecks(config) ==
    LET ext == SuffixLower(config.file_path)
        limits == config.max_size_bytes
        has_limit == config.category \in DOMAIN limits \/ "*" \in DOMAIN limits
        category_limit == IF config.category \in DOMAIN limits
                          THEN limits[config.category] ELSE limits["*"]
        file_size == FileSizes[config.file_path]
        format_ok == CheckResult("format", "PASS", ext)
        exists_ok == CheckResult("file_exists", "PASS", config.file_path)
    IN  IF ext \notin ACCEPTED_EXTENSIONS
        THEN <<"FAIL", <<CheckResult("format", "FAIL", IF ext = "" THEN "(none)" ELSE ext)>>>>
        ELSE IF config.file_path \notin DOMAIN FileSizes
        THEN <<"FAIL", <<format_ok, CheckResult("file_exists", "FAIL", config.file_path)>>>>
        ELSE IF file_size > config.hard_max_bytes
        THEN <<"FAIL", <<format_ok, exists_ok, CheckResult("file_size", "FAIL", file_size)>>>>
        ELSE IF has_limit /\ file_size > category_limit
        THEN <<"PASS", <<format_ok, exists_ok, CheckResult("file_size", "WARNING", file_size)>>>>
        ELSE <<"PASS", <<format_ok, exists_ok, CheckResult("file_size", "PASS", file_size)>>>>

\* Mutant of run_intake_result: the asset id is derived from the file path.
run_intake_result_id_from_path(config, uuid4, now) ==
    _build_report(config.file_path, config, now,
                  IntakeChecks(config)[1], IntakeChecks(config)[2])

\* The value run_intake returns when uuid.uuid4() returns uuid4 and the clock
\* reads now.
run_intake_result(config, uuid4, now) ==
    _build_report(UuidText[uuid4], config, now,
                  IntakeChecks(config)[1], IntakeChecks(config)[2])

IntakeConfigs ==
    [file_path : {"crate.glb", "Crate.GLB", "big.obj", "missing.fbx", "crate.blend", "crate"},
     source : {"vendor"},
     submitter : {"artist"},
     category : {"env_prop"},
     max_size_bytes : {("env_prop" :> 500) @@ ("*" :> 900), ("character" :> 300)},
     hard_max_bytes : {10000}]

MaxIntakeRuns == 2

IntakeIdle ==
    /\ intake_issued = {}
    /\ intake_reports = <<>>
    /\ intake_configs = <<>>

\* run_intake
run_intake ==
    /\ Len(intake_reports) < MaxIntakeRuns
    /\ \E config \in IntakeConfigs, now \in ClockSamples,
          uuid4 \in (DOMAIN UuidText) \ intake_issued :
          /\ intake_issued' = intake_issued \cup {uuid4}
          /\ intake_reports' = Append(intake_reports, run_intake_result(config, uuid4, now))
          /\ intake_configs' = Append(intake_configs, config)
    /\ UNCHANGED <<aggVars, stageVars, remVars, uvVars, runVars, serVars, pbrVars, toolVars>>

IntakeNext == run_intake

(***************************************************************************)
(* pipeline/main.py                                                        *)
(*                                                                         *)
(* run_checks is one thread of control; run_pc names the statement it      *)
(* executes next.  Its arguments are a context and a config for each       *)
(* engine; the remediation context is the scene rem_scene.                 *)
(***************************************************************************)
NoReturn == [none |-> TRUE]
RunIdle ==
    /\ run_pc = "none"
    /\ run_args = NoContext
    /\ run_locals = NoContext
    /\ run_return = NoReturn

\* Arguments of a run: for each engine a clean asset and a faulty one.
RunChecksArgs ==
    [geom : {x \in GeometryInputs :
                /\ x[2].triangle_budgets = _DEFAULT_BUDGETS /\ x[2].category = "env_prop"
                /\ Len(x[1].mesh_objects) = 1
                /\ x[1].mesh_objects[1].name \in {"Crate", "Flipped"}},
     uv : {x \in UVInputs :
              /\ x[2].uv_layer_name = "UVMap" /\ ~x[2].require_lightmap_uv2
              /\ Len(x[1].mesh_objects) = 1
              /\ x[1].mesh_objects[1].name \in {"Crate", "Stacked"}},
     tex : {x \in TextureInputs :
               /\ ~x[2].is_hero_asset /\ x[2].max_textures_per_material = 2
               /\ x[1].materials = <<>>
               /\ Len(x[1].images) = 1
               /\ x[1].images[1] \in {TextureImage("wood_albedo", <<4, 4>>, 24, "sRGB"),
                                       TextureImage("image", <<16, 16>>, 48, "Raw")}},
     pbr : {x \in PBRInputs :
               /\ x[2].albedo_sample_count = 1
               /\ Len(x[1].mesh_objects) = 1
               /\ Len(x[1].materials) = 1
               /\ x[1].materials[1].name \in {"Plain", "Flat", "Wood"}},
     arm : {x \in ArmatureContexts \X ArmatureConfigs :
               /\ x[2].max_bones = 75 /\ x[2].bone_naming_pattern = NoPattern
               /\ x[1].armatures = <<<<Bone("root", 0), Bone("child", 1)>>>>
               /\ \/ /\ x[2].category = "character"
                     /\ x[1].skinned_meshes = <<<<<<3000000, 3000000, 3000000, 3000000, 3000000>>>>>>
                  \/ /\ x[2].category = "env_prop"
                     /\ x[1].skinned_meshes = <<>>},
     scene : {x \in SceneInputs :
                 /\ x[2].require_lod /\ ~x[2].require_collision
                 /\ x[1].armature_objects = <<>> /\ x[1].unique_images = <<>>
                 /\ x[1].orphan_counts.meshes = 0
                 /\ Len(x[1].mesh_objects) = 1
                 /\ x[1].mesh_objects[1].name \in {"Crate", "Crate_LOD0"}}]

\* run_checks has been called: no statement executed yet.
RunStart(args) ==
    /\ run_pc = "check_geometry"
    /\ run_args = args
    /\ run_locals = [geom_result |-> NoResult, uv_result |-> NoResult,
                     tex_result |-> NoResult, pbr_result |-> NoResult,
                     arm_result |-> NoResult, scene_result |-> NoResult,
                     stage1_results |-> <<>>]
    /\ run_return = NoReturn

\* A statement of run_checks other than the call of run_remediation: it binds
\* one local and moves on.
RunStep(pc, next_pc, locals) ==
    /\ run_pc = pc
    /\ run_pc' = next_pc
    /\ run_locals' = locals
    /\ UNCHANGED <<run_args, run_return>>
    /\ UNCHANGED <<aggVars, stageVars, remVars, uvVars, serVars, intakeVars, pbrVars, toolVars>>

\* geom_result = check_geometry(geom_ctx, geom_config)
run_checks_geometry ==
    RunStep("check_geometry", "check_uvs",
            [run_locals EXCEPT !.geom_result =
                check_geometry_result(run_args.geom[1], run_args.geom[2])])

\* uv_result = check_uvs(uv_ctx, uv_config)
run_checks_uvs ==
    RunStep("check_uvs", "check_textures",
            [run_locals EXCEPT !.uv_result =
                check_uvs_result(run_args.uv[1], run_args.uv[2])])

\* tex_result = check_textures(tex_ctx, tex_config)
run_checks_textures ==
    RunStep("check_textures", "check_pbr",
            [run_locals EXCEPT !.tex_result =
                check_textures_result(run_args.tex[1], run_args.tex[2])])

\* pbr_result = check_pbr(pbr_ctx, pbr_config)
run_checks_pbr ==
    \E result \in check_pbr_result(run_args.pbr[1], run_args.pbr[2]) :
        RunStep("check_pbr", "check_armature",
                [run_locals EXCEPT !.pbr_result = result])

\* arm_result = check_armature(arm_ctx, arm_config)
run_checks_armature ==
    RunStep("check_armature", "check_scene",
            [run_locals EXCEPT !.arm_result =
                check_armature_result(run_args.arm[1], run_args.arm[2])])

\* scene_result, _perf = check_scene(scene_ctx, scene_config)
run_checks_scene ==
    RunStep("check_scene", "stage1_results",
            [run_locals EXCEPT !.scene_result =
                check_scene_result(run_args.scene[1], run_args.scene[2])[1]])

\* Mutant of Stage1ResultList: the list is built without the scene result.
Stage1ResultListNoScene(locals) ==
    <<locals.geom_result, locals.uv_result, locals.tex_result,
      locals.pbr_result, locals.arm_result>>

\* [geom_result, uv_result, tex_result, pbr_result, arm_result, scene_result]
Stage1ResultList(locals) ==
    <<locals.geom_result, locals.uv_result, locals.tex_result,
      locals.pbr_result, locals.arm_result, locals.scene_result>>

\* stage1_results = [...]
run_checks_stage1_results ==
    RunStep("stage1_results", "run_remediation",
            [run_locals EXCEPT !.stage1_results = Stage1ResultList(run_locals)])

\* rem_result = run_remediation(rem_ctx, stage1_results, rem_config)
run_checks_remediation ==
    /\ run_pc = "run_remediation"
    /\ run_pc' = "return"
    /\ RemediationRun(run_locals.stage1_results)
    /\ UNCHANGED <<run_args, run_locals, run_return>>
    /\ UNCHANGED <<aggVars, stageVars, uvVars, serVars, intakeVars, pbrVars, toolVars>>

\* return stage1_results, [rem_result]
run_checks_return ==
    /\ run_pc = "return"
    /\ run_pc' = "done"
    /\ run_return' = <<run_locals.stage1_results, <<rem_result>>>>
    /\ UNCHANGED <<run_args, run_locals>>
    /\ UNCHANGED <<aggVars, stageVars, remVars, uvVars, serVars, intakeVars, pbrVars, toolVars>>

RunChecksNext ==
    \/ run_checks_geometry
    \/ run_checks_uvs
    \/ run_checks_textures
    \/ run_checks_pbr
    \/ run_checks_armature
    \/ run_checks_scene
    \/ run_checks_stage1_results
    \/ run_checks_remediation
    \/ run_checks_return

\* The caller of run_checks reports the run: ReportBuilder.add_stage for each
\* of the six Stage-1 results and for the remediation result, in this order,
\* then ReportBuilder.finalize.
report_run ==
    /\ run_pc = "done"
    /\ report = NoReport
    /\ builder_stages' = builder_stages \o run_return[1] \o run_return[2]
    /\ report' = [overall_status |-> _compute_status(builder_stages'),
                  stages |-> builder_stages']
    /\ UNCHANGED <<stageVars, remVars, extVars>>

PipelineNext ==
    \/ RunChecksNext
    \/ report_run

(***************************************************************************)
(* blender_tests/tests.py: _detect_cycles                                  *)
(*                                                                         *)
(* A node tree is [nodes, links]: the node names in the order of           *)
(* node_tree.nodes, and the links as [from_node, to_node] in the order of  *)
(* node_tree.links.  Blender keeps node names unique within a tree, and a  *)
(* link joins two nodes of its tree.                                       *)
(***************************************************************************)
Link(from_node, to_node) == [from_node |-> from_node, to_node |-> to_node]

\* successors: for each node the to_node names of its links, in link order
successors(node_tree) ==
    [name \in Range(node_tree.nodes) |->
        LET From(link) == link.from_node = name
            own == SelectSeq(node_tree.links, From)
        IN  [i \in DOMAIN own |-> own[i].to_node]]

\* Mutant of OnStack: every visited neighbour counts as a back edge.
on_stack_any_visited(neighbor, st) == neighbor \in st.visited

\* elif neighbor in rec_stack
OnStack(neighbor, st) == neighbor \in st.rec_stack

\* dfs(name) with the sets visited and rec_stack as st; it returns whether a
\* back edge was found, and the two sets as the call leaves them.
RECURSIVE dfs(_, _, _)
RECURSIVE DfsNeighbors(_, _, _)
dfs(succ, name, st) ==
    LET entered == [visited |-> st.visited \cup {name},
                    rec_stack |-> st.rec_stack \cup {name}]
        r == DfsNeighbors(succ, succ[name], entered)
    IN  IF r.found THEN r
        ELSE [found |-> FALSE, visited |-> r.visited,
              rec_stack |-> r.rec_stack \ {name}]

\* The loop of dfs over the neighbours still to look at.
DfsNeighbors(succ, neighbors, st) ==
    IF neighbors = <<>>
    THEN [found |-> FALSE, visited |-> st.visited, rec_stack |-> st.rec_stack]
    ELSE LET neighbor == Head(neighbors)
         IN  IF neighbor \notin st.visited
             THEN LET r == dfs(succ, neighbor, st)
                  IN  IF r.found THEN r
                      ELSE DfsNeighbors(succ, Tail(neighbors),
                               [visited |-> r.visited, rec_stack |-> r.rec_stack])
             ELSE IF OnStack(neighbor, st)
             THEN [found |-> TRUE, visited |-> st.visited, rec_stack |-> st.rec_stack]
             ELSE DfsNeighbors(succ, Tail(neighbors), st)

\* The loop of _detect_cycles over node_tree.nodes.
RECURSIVE DetectFrom(_, _, _)
DetectFrom(succ, nodes, st) ==
    IF nodes = <<>> THEN FALSE
    ELSE IF Head(nodes) \in st.visited THEN DetectFrom(succ, Tail(nodes), st)
    ELSE LET r == dfs(succ, Head(nodes), st)
         IN  IF r.found THEN TRUE
             ELSE DetectFrom(succ, Tail(nodes),
                      [visited |-> r.visited, rec_stack |-> r.rec_stack])

_detect_cycles(node_tree) ==
    DetectFrom(successors(node_tree), node_tree.nodes,
               [visited |-> {}, rec_stack |-> {}])

\* Bounds on the node trees examined.
MaxNodes == 3
MaxLinks == 3

\* The node lists: the first k node names, listed forwards or backwards.  The
\* names stand for any names: _detect_cycles only compares them.
NodeLists ==
    LET names == <<"Image Texture", "Mapping", "Mix Shader", "Principled BSDF",
                   "Material Output">>
    IN  UNION {{SubSeq(names, 1, k), [i \in 1..k |-> names[k + 1 - i]]} :
               k \in 0..MaxNodes}

\* The links possible between the nodes, self-links included.
LinksOver(nodes) == {Link(a, b) : a, b \in Range(nodes)}

NoTree == [nodes |-> <<>>, links |-> <<>>, none |-> TRUE]
CycIdle ==
    /\ cyc_tree = NoTree
    /\ cyc_call = NoCall

\* _detect_cycles is called on the node tree
detect_cycles ==
    /\ cyc_call = NoCall
    /\ cyc_call' = [fn |-> "_detect_cycles", result |-> _detect_cycles(cyc_tree)]
    /\ UNCHANGED cyc_tree
    /\ UNCHANGED <<aggVars, stageVars, remVars, uvVars, runVars, serVars, intakeVars, pbrVars, expVars>>

CyclesNext == detect_cycles

(***************************************************************************)
(* pipeline/stage3/export.py                                               *)
(*                                                                         *)
(* A file is [dir, name]: dir is the path of its directory as the sequence *)
(* of its parts, beginning with the name of the ExportConfig field that    *)
(* holds the root, and name is <<stem, suffix>>.  The four roots of a      *)
(* config are taken to be different directories.  The report is the        *)
(* aggregator's, without the ExportInfo that set_export hands over.        *)
(***************************************************************************)
NoMetadata == [none |-> TRUE]
NoExport == [none |-> TRUE]

CATEGORY_FOLDER ==
    [category \in {"character", "env_prop", "hero_prop", "vehicle", "weapon", "ui"} |->
        CASE category = "character" -> "Characters"
          [] category \in {"env_prop", "hero_prop"} -> "Environment/Props"
          [] category = "vehicle" -> "Vehicles"
          [] category = "weapon" -> "Weapons"
          [] category = "ui" -> "UI"]

\* Mutant of RouteDest: a report that needs review is handed to Unity.
route_dest_review_to_unity(overall_status, asset_id, category) ==
    IF overall_status \in {"PASS", "PASS_WITH_FIXES", "NEEDS_REVIEW"}
    THEN <<"unity_drop_dir", "Art",
           IF category \in DOMAIN CATEGORY_FOLDER THEN CATEGORY_FOLDER[category]
           ELSE "Other", asset_id>>
    ELSE <<"quarantine_dir", asset_id>>

\* _route: the directory dest
RouteDest(overall_status, asset_id, category) ==
    IF overall_status \in {"PASS", "PASS_WITH_FIXES"}
    THEN <<"unity_drop_dir", "Art",
           IF category \in DOMAIN CATEGORY_FOLDER THEN CATEGORY_FOLDER[category]
           ELSE "Other", asset_id>>
    ELSE IF overall_status = "NEEDS_REVIEW"
    THEN <<"review_queue_dir", asset_id>>
    ELSE <<"quarantine_dir", asset_id>>

\* _route: the two copies made
_route(qa_report, export_path, manifest_path, asset_id, category) ==
    LET dest == RouteDest(qa_report.overall_status, asset_id, category)
    IN  {[dir |-> dest, name |-> export_path.name],
         [dir |-> dest, name |-> manifest_path.name]}

\* The stages a caller hands to the builder before the export.
ExportStages == {stage \in SampleStages : stage.name = "remediation"}

\* The builders' metadata: a category with a Unity folder and one without.
ExportMetadata ==
    {[asset_id |-> "6f1c0b62", category |-> category] : category \in {"env_prop", "prop"}}

\* run_export
run_export ==
    /\ \E format \in {"gltf", "fbx"} :
          LET asset_id == exp_metadata.asset_id
              asset_out_dir == <<"output_dir", asset_id>>
              export_path == [dir |-> asset_out_dir, name |-> <<asset_id, format>>]
              manifest_path == [dir |-> asset_out_dir, name |-> <<asset_id, "_qa.json">>]
              qa_report == [overall_status |-> _compute_status(builder_stages),
                            stages |-> builder_stages]
          IN  /\ report' = qa_report
              /\ exp_files' = {export_path, manifest_path}
                                \cup _route(qa_report, export_path, manifest_path,
                                            asset_id, exp_metadata.category)
              /\ exp_return' = <<StageResult("export", "PASS", <<>>, <<>>, <<>>), qa_report>>
    /\ UNCHANGED <<builder_stages, exp_metadata>>
    /\ UNCHANGED <<stageVars, remVars, uvVars, runVars, serVars, intakeVars, pbrVars, cycVars>>

ExportNext ==
    \/ \E stage \in ExportStages : add_stage(stage)
    \/ run_export
ExpIdle ==
    /\ exp_metadata = NoMetadata
    /\ exp_files = {}
    /\ exp_return = NoExport

ToolIdle == CycIdle /\ ExpIdle

(***************************************************************************)
(* Specifications                                                          *)
(***************************************************************************)
\* Nothing has run yet: a fresh ReportBuilder, no engine called.
ExtIdle == UvIdle /\ RunIdle /\ SerIdle /\ IntakeIdle /\ PbrIdle /\ ToolIdle

Init ==
    /\ AggInit
    /\ StageIdle
    /\ RemIdle
    /\ ExtIdle

SpecAgg == Init /\ [][AggNext]_vars
SpecReview == Init /\ [][ReviewNext]_vars

SpecArmature == Init /\ [][ArmNext]_vars

SpecTexture == Init /\ [][TexNext]_vars

SpecStage1 == Init /\ [][Stage1Next]_vars

\* A scene is loaded and Stage 1 has produced its results.
InitRemediation ==
    /\ AggInit
    /\ StageIdle
    /\ \E scene \in RemediationScenes, config \in RemediationConfigs :
          RemStart(scene, config)
    /\ ExtIdle

SpecRemediation == InitRemediation /\ [][RemNext]_vars

InitResize ==
    /\ AggInit
    /\ StageIdle
    /\ \E scene \in ResizeScenes, config \in ResizeConfigs : RemStart(scene, config)
    /\ ExtIdle

\* An asset's UV triangles are given; no overlap function has been called.
InitOverlap ==
    /\ AggInit
    /\ StageIdle
    /\ RemIdle
    /\ uv_tris \in TriangleLists(MaxTriangles)
    /\ uv_call = NoCall
    /\ RunIdle
    /\ SerIdle
    /\ IntakeIdle
    /\ PbrIdle
    /\ ToolIdle

SpecOverlap == InitOverlap /\ [][OverlapNext]_vars

\* run_checks is called on a loaded scene.
InitRunChecks ==
    /\ AggInit
    /\ StageIdle
    /\ UvIdle
    /\ \E scene \in {sc \in RemediationScenes : Len(sc.mesh_objects) = 2},
          config \in RemediationConfigs :
          RemStart(scene, config)
    /\ \E args \in RunChecksArgs : RunStart(args)
    /\ SerIdle
    /\ IntakeIdle
    /\ PbrIdle
    /\ ToolIdle

\* A report exists; it has not been serialized.
InitRoundTrip ==
    /\ AggInit
    /\ StageIdle
    /\ RemIdle
    /\ UvIdle
    /\ RunIdle
    /\ ser_report \in QaReportSamples
    /\ ser_dict = None
    /\ ser_restored = None
    /\ IntakeIdle
    /\ PbrIdle
    /\ ToolIdle

SpecRoundTrip == InitRoundTrip /\ [][RoundTripNext]_vars

SpecIntake == Init /\ [][IntakeNext]_vars

\* A material's node tree is given, with any list of up to MaxLinks links,
\* repeated links included; _detect_cycles has not been called.
InitCycles ==
    /\ AggInit
    /\ StageIdle
    /\ RemIdle
    /\ UvIdle
    /\ RunIdle
    /\ SerIdle
    /\ IntakeIdle
    /\ PbrIdle
    /\ \E nodes \in NodeLists, n \in 0..MaxLinks :
          \E links \in [1..n -> LinksOver(nodes)] :
              cyc_tree = [nodes |-> nodes, links |-> links]
    /\ cyc_call = NoCall
    /\ ExpIdle

SpecCycles == InitCycles /\ [][CyclesNext]_vars

\* A ReportBuilder holds the metadata of an asset; nothing was exported.
InitExport ==
    /\ AggInit
    /\ StageIdle
    /\ RemIdle
    /\ UvIdle
    /\ RunIdle
    /\ SerIdle
    /\ IntakeIdle
    /\ PbrIdle
    /\ CycIdle
    /\ exp_metadata \in ExportMetadata
    /\ exp_files = {}
    /\ exp_return = NoExport

SpecExport == InitExport /\ [][ExportNext]_vars

InitPbrCalls ==
    /\ AggInit
    /\ StageIdle
    /\ RemIdle
    /\ UvIdle
    /\ RunIdle
    /\ SerIdle
    /\ IntakeIdle
    /\ pbr_input \in PBRInputs
    /\ pbr_results = <<>>
    /\ ToolIdle

SpecPbrCalls == InitPbrCalls /\ [][PbrCallsNext]_vars

SpecRunChecks == InitRunChecks /\ [][RunChecksNext]_vars
SpecPipeline == InitRunChecks /\ [][PipelineNext]_vars

SpecResize == InitResize /\ [][ResizeNext]_vars

(***************************************************************************)
(* Claims about the aggregator                                             *)
(***************************************************************************)
Finalized == report # NoReport
AnyFail(stages) == \E i \in DOMAIN stages : stages[i].status = "FAIL"
AnyFlag(stages) == \E i \in DOMAIN stages : Len(stages[i].review_flags) > 0
AnyFix(stages) == \E i \in DOMAIN stages : Len(stages[i].fixes) > 0

\* C1: whenever a finalized report holds at least one FAIL stage, its overall
\* status is FAIL, whatever fixes and review flags the stages carry.
C1_FailDominates ==
    (Finalized /\ AnyFail(report.stages)) => report.overall_status = "FAIL"

C1_Witness ==
    /\ Finalized
    /\ AnyFail(report.stages) /\ AnyFlag(report.stages) /\ AnyFix(report.stages)
    /\ \E i \in DOMAIN report.stages :
          /\ report.stages[i].name = "remediation"
          /\ report.stages[i].status = "PASS"
          /\ report.stages[i].review_flags # <<>>
    /\ report.overall_status = "FAIL"

\* C2: a finalized report with no FAIL stage and at least one review flag is
\* NEEDS_REVIEW, also when stages carry fixes.
C2_ReviewOverFix ==
    (Finalized /\ ~AnyFail(report.stages) /\ AnyFlag(report.stages))
        => report.overall_status = "NEEDS_REVIEW"

C2_Witness ==
    /\ Finalized
    /\ ~AnyFail(report.stages) /\ AnyFlag(report.stages) /\ AnyFix(report.stages)
    /\ report.overall_status = "NEEDS_REVIEW"

\* C3: a finalized report with no FAIL stage and no review flag is
\* PASS_WITH_FIXES if some stage has a fix and PASS otherwise; SKIPPED stages
\* count like PASS.
C3_FixOnlyAndClean ==
    (Finalized /\ ~AnyFail(report.stages) /\ ~AnyFlag(report.stages))
        => report.overall_status =
              IF AnyFix(report.stages) THEN "PASS_WITH_FIXES" ELSE "PASS"

C3_Witness ==
    /\ Finalized
    /\ ~AnyFail(report.stages) /\ ~AnyFlag(report.stages)
    /\ \E i \in DOMAIN report.stages : report.stages[i].status = "SKIPPED"
    /\ \E i \in DOMAIN report.stages : report.stages[i].fixes # <<>>
    /\ report.overall_status = "PASS_WITH_FIXES"

\* C24: the verdict stays consistent with the stages through finalize()
\* followed by write_review_package: in every report state reached,
\* overall_status is the precedence rule applied to the report's current
\* stages, so a report with a review flag and no FAIL stage is NEEDS_REVIEW.
C24_VerdictFollowsStages ==
    Finalized =>
        /\ report.overall_status = _compute_status(report.stages)
        /\ (AnyFlag(report.stages) /\ ~AnyFail(report.stages))
              => report.overall_status = "NEEDS_REVIEW"

\* What the last run_export returned and copied.
Exported == exp_return # NoExport
ExportVerdict == exp_return[2].overall_status
ExportCopies == {f \in exp_files : f.dir[1] # "output_dir"}

\* C27: run_export finalizes the report, writes the manifest and copies the
\* export file and the manifest to exactly one destination: the Unity drop
\* directory for PASS and PASS_WITH_FIXES, the review queue for NEEDS_REVIEW,
\* quarantine for FAIL.  Nothing of a FAIL or NEEDS_REVIEW asset is copied
\* into the Unity drop directory, and the export stage returned is PASS.
C27_ExportRouting ==
    Exported =>
        /\ exp_return[2] = report
        /\ ExportVerdict = _compute_status(exp_return[2].stages)
        /\ \E f \in exp_files : f.dir[1] = "output_dir" /\ f.name[2] = "_qa.json"
        /\ Cardinality({f.dir : f \in ExportCopies}) = 1
        /\ Cardinality(ExportCopies) = 2
        /\ {f.name : f \in ExportCopies}
              = {f.name : f \in exp_files \ ExportCopies}
        /\ \A f \in ExportCopies :
              f.dir[1] = CASE ExportVerdict \in {"PASS", "PASS_WITH_FIXES"} -> "unity_drop_dir"
                           [] ExportVerdict = "NEEDS_REVIEW" -> "review_queue_dir"
                           [] ExportVerdict = "FAIL" -> "quarantine_dir"
        /\ ExportVerdict \in {"FAIL", "NEEDS_REVIEW"}
              => ~\E f \in exp_files : f.dir[1] = "unity_drop_dir"
        /\ exp_return[1].name = "export" /\ exp_return[1].status = "PASS"

\* A report with fixes and, in a later stage, a review flag: both files go to
\* the review queue.
C27_Witness ==
    /\ Exported
    /\ ExportVerdict = "NEEDS_REVIEW"
    /\ AnyFix(exp_return[2].stages)
    /\ ~AnyFlag(<<exp_return[2].stages[1]>>)
    /\ \A f \in ExportCopies : f.dir = <<"review_queue_dir", exp_metadata.asset_id>>

(***************************************************************************)
(* Claims about the Stage-1 engines                                        *)
(***************************************************************************)
Stage1Names == {"geometry", "uv", "texture", "pbr", "armature", "scene"}
Stage1Ran == stage_result # NoResult
SomeCheckIs(status) ==
    \E i \in DOMAIN stage_result.checks : stage_result.checks[i].status = status

\* C4: whatever the asset, the StageResult of each Stage-1 engine (geometry,
\* uv, texture, pbr, armature, scene) has status FAIL exactly when at least
\* one of its checks is FAIL; WARNING and SKIPPED checks alone never fail the
\* stage, which is then PASS, or SKIPPED when check_armature left early.
C4_StageFailIffCheckFail ==
    Stage1Ran =>
        /\ stage_result.name \in Stage1Names
        /\ stage_result.status = "FAIL" <=> SomeCheckIs("FAIL")
        /\ ~SomeCheckIs("FAIL") =>
              stage_result.status =
                  IF stage_result.name = "armature" /\ ~skinned_read
                  THEN "SKIPPED" ELSE "PASS"

\* check_scene has run on a scene whose checks are two WARNINGs and two
\* SKIPPEDs, and the stage is PASS (test_only_warnings_yield_pass_stage).
C4_Witness ==
    /\ Stage1Ran
    /\ stage_result.name = "scene"
    /\ [i \in DOMAIN stage_result.checks |-> stage_result.checks[i].status]
          = <<"WARNING", "WARNING", "SKIPPED", "SKIPPED">>
    /\ stage_result.status = "PASS"

\* The check names of the result, in order.
CheckNames == [i \in DOMAIN stage_result.checks |-> stage_result.checks[i].name]

\* The full list of checks of each engine that has no early exit.
FullCheckList ==
    [geometry |-> <<"polycount_budget", "non_manifold", "degenerate_faces",
                    "normal_consistency", "loose_geometry", "interior_faces">>,
     uv |-> <<"missing_uvs", "uv_bounds", "uv_overlap", "texel_density", "lightmap_uv2">>,
     texture |-> <<"missing_textures", "resolution_limit", "power_of_two",
                   "texture_count", "channel_depth", "color_space">>,
     pbr |-> <<"pbr_workflow", "material_slots", "albedo_range", "metalness_binary",
               "roughness_range", "normal_map", "node_graph">>,
     scene |-> <<"naming_conventions", "orphan_data", "lod_presence",
                 "collision_presence">>]

FullCheckCount == [geometry |-> 6, uv |-> 5, texture |-> 6, pbr |-> 7, scene |-> 4]

\* C17: no short-circuiting: every Stage-1 engine returns its full fixed
\* list of checks with pairwise distinct names whatever the outcome of each
\* check (geometry six, uv five, texture six, pbr seven, scene four), so a
\* FAIL in an earlier check never removes a later check from the result.
C17_NoShortCircuit ==
    (Stage1Ran /\ stage_result.name # "armature") =>
        /\ stage_result.name \in DOMAIN FullCheckList
        /\ CheckNames = FullCheckList[stage_result.name]
        /\ Len(stage_result.checks) = FullCheckCount[stage_result.name]
        /\ \A i, j \in DOMAIN CheckNames : CheckNames[i] = CheckNames[j] => i = j

\* check_geometry has run on an asset whose first check, polycount_budget,
\* is FAIL, and the five checks after it are in the result
\* (test_all_six_checks_run_even_when_polycount_fails).
C17_Witness ==
    /\ Stage1Ran
    /\ stage_result.name = "geometry"
    /\ stage_result.checks[1] = CheckResult("polycount_budget", "FAIL", 0)
    /\ Len(stage_result.checks) = 6
    /\ stage_result.checks[6].name = "interior_faces"
    /\ stage_result.status = "FAIL"

\* The statuses and measured values of a result, check by check.
Outcome(result) ==
    [i \in DOMAIN result.checks |->
        <<result.checks[i].status, result.checks[i].measured_value>>]

\* C18: the check engines are deterministic functions of their inputs: for
\* every fixed context and config, two invocations of check_pbr return the
\* same check statuses and measured values, for every input size, including
\* textures holding more pixels than albedo_sample_count.
C18_PbrDeterministic ==
    \A i, j \in DOMAIN pbr_results :
        Outcome(pbr_results[i]) = Outcome(pbr_results[j])

GeometryRan == Stage1Ran /\ stage_result.name = "geometry"

\* The total triangle count over all mesh objects of the context.
TotalTriangles ==
    SumSeq([i \in DOMAIN stage_ctx.mesh_objects |-> stage_ctx.mesh_objects[i].triangle_count])

\* The env_prop budget, (500, 5000).
EnvPropBudget == <<500, 5000>>

\* The budget of the category, or the env_prop budget if the configured
\* budgets do not have the category.
ResolvedBudget ==
    IF stage_config.category \in DOMAIN stage_config.triangle_budgets
    THEN stage_config.triangle_budgets[stage_config.category]
    ELSE EnvPropBudget

PolycountChecks ==
    LET IsPolycount(c) == c.name = "polycount_budget"
    IN  SelectSeq(stage_result.checks, IsPolycount)

\* C19: polycount_budget is FAIL if and only if the total triangle count
\* over all mesh objects is strictly below min or strictly above max of the
\* resolved category budget (counts equal to min or max pass), with
\* measured_value equal to the total; a category absent from the configured
\* budgets is judged against the env_prop budget.
C19_PolycountBudget ==
    GeometryRan =>
        /\ Len(PolycountChecks) = 1
        /\ PolycountChecks[1].measured_value = TotalTriangles
        /\ PolycountChecks[1].status =
              IF TotalTriangles < ResolvedBudget[1] \/ TotalTriangles > ResolvedBudget[2]
              THEN "FAIL" ELSE "PASS"

\* A total of 5000 under a category the configured budgets lack, the
\* configured env_prop budget being (0, 10): the total equals the max of the
\* env_prop budget (500, 5000) and passes.
C19_Witness ==
    /\ GeometryRan
    /\ stage_config.category = "hero_prop"
    /\ stage_config.triangle_budgets = [env_prop |-> <<0, 10>>]
    /\ TotalTriangles = 5000
    /\ PolycountChecks = <<CheckResult("polycount_budget", "PASS", 5000)>>

PbrRan == Stage1Ran /\ stage_result.name = "pbr"

NodeGraphChecks ==
    LET IsNodeGraph(c) == c.name = "node_graph"
    IN  SelectSeq(stage_result.checks, IsNodeGraph)

\* Some material has no shader nodes, an image-texture node with no
\* downstream connection, or a directed cycle in its shading graph.
AnyNodeGraphIssue ==
    \E i \in DOMAIN stage_ctx.materials :
        LET mat == stage_ctx.materials[i]
        IN  \/ ~mat.has_nodes
            \/ mat.orphan_image_node_count > 0
            \/ mat.has_node_cycles

\* C20: node_graph is WARNING (never FAIL) whenever any material has no
\* shader nodes, has an image-texture node with no downstream connection, or
\* has a directed cycle in its shading graph, and is PASS only when no
\* material has any of these three conditions.
C20_NodeGraphWarning ==
    PbrRan =>
        /\ Len(NodeGraphChecks) = 1
        /\ NodeGraphChecks[1].status # "FAIL"
        /\ AnyNodeGraphIssue => NodeGraphChecks[1].status = "WARNING"
        /\ NodeGraphChecks[1].status = "PASS" => ~AnyNodeGraphIssue

RoughnessChecks ==
    LET IsRoughness(c) == c.name = "roughness_range"
    IN  SelectSeq(stage_result.checks, IsRoughness)

\* The roughness values of the context, material by material; they are the
\* sampled values when there are no more of them than albedo_sample_count.
RoughnessValues ==
    Flatten([i \in DOMAIN stage_ctx.materials |->
                [k \in 1..(Len(stage_ctx.materials[i].roughness_pixels) \div 4) |->
                    stage_ctx.materials[i].roughness_pixels[(k - 1) * 4 + 1]]])

AllRoughnessSampled == Len(RoughnessValues) <= stage_config.albedo_sample_count

\* The number of values that are 0 or 1 within the epsilon of 1e-6.
ExtremeRoughness ==
    LET Extreme(v) == v < 10 \/ v > PixelOne - 10
    IN  Len(SelectSeq(RoughnessValues, Extreme))

\* C21: roughness_range is WARNING if and only if more than 50% of the
\* sampled roughness values are exactly 0 or exactly 1 (within the 1e-6
\* epsilon), counting both extremes towards the 50%; with no roughness
\* samples it is PASS; it is never FAIL.
C21_RoughnessRange ==
    (PbrRan /\ AllRoughnessSampled) =>
        /\ Len(RoughnessChecks) = 1
        /\ RoughnessChecks[1].status # "FAIL"
        /\ RoughnessValues = <<>> => RoughnessChecks[1].status = "PASS"
        /\ RoughnessChecks[1].status = "WARNING"
              <=> ExtremeRoughness * 2 > Len(RoughnessValues)

\* C26: run_intake evaluates format, then file existence, then file size, and
\* stops at the first FAIL: an unsupported extension gives the format check
\* alone; a missing file gives format PASS and file_exists FAIL; a size above
\* hard_max_bytes gives file_size FAIL; a size above the category limit but
\* not above the hard limit gives file_size WARNING with the stage PASS.  The
\* stage is FAIL iff its last check is FAIL, and no check follows a FAIL.
C26_IntakeOrder ==
    \A i \in DOMAIN intake_reports :
        LET config == intake_configs[i]
            stage == intake_reports[i].stages[1]
            checks == stage.checks
            n == Len(checks)
            supported == SuffixLower(config.file_path) \in ACCEPTED_EXTENSIONS
            exists == config.file_path \in DOMAIN FileSizes
            limits == config.max_size_bytes
            limit_keys == {config.category, "*"} \cap DOMAIN limits
            over_hard == FileSizes[config.file_path] > config.hard_max_bytes
            over_category ==
                /\ limit_keys # {}
                /\ FileSizes[config.file_path] >
                      limits[IF config.category \in limit_keys
                             THEN config.category ELSE "*"]
        IN  /\ n \in 1..3
            /\ [k \in 1..n |-> checks[k].name]
                  = SubSeq(<<"format", "file_exists", "file_size">>, 1, n)
            /\ \A k \in 1..(n - 1) : checks[k].status = "PASS"
            /\ stage.status = IF checks[n].status = "FAIL" THEN "FAIL" ELSE "PASS"
            /\ ~supported => (n = 1 /\ checks[1].status = "FAIL")
            /\ (supported /\ ~exists) => (n = 2 /\ checks[2].status = "FAIL")
            /\ (supported /\ exists) =>
                  /\ n = 3
                  /\ checks[3].measured_value = FileSizes[config.file_path]
                  /\ over_hard => checks[3].status = "FAIL"
                  /\ (~over_hard /\ over_category) =>
                        (checks[3].status = "WARNING" /\ stage.status = "PASS")
                  /\ (~over_hard /\ ~over_category) => checks[3].status = "PASS"

\* One run on a file above its category limit, and one on a file above the
\* hard limit that is above the category limit as well.
C26_Witness ==
    /\ Len(intake_reports) = 2
    /\ intake_configs[1].file_path = "Crate.GLB"
    /\ "env_prop" \in DOMAIN intake_configs[1].max_size_bytes
    /\ intake_configs[1].max_size_bytes["env_prop"] = 500
    /\ intake_reports[1].stages[1].status = "PASS"
    /\ intake_reports[1].stages[1].checks[3] = CheckResult("file_size", "WARNING", 600)
    /\ intake_configs[2].file_path = "big.obj"
    /\ "env_prop" \in DOMAIN intake_configs[2].max_size_bytes
    /\ intake_reports[2].stages[1].status = "FAIL"
    /\ intake_reports[2].stages[1].checks[3] = CheckResult("file_size", "FAIL", 20000)

(***************************************************************************)
(* Claims about the UV overlap functions                                   *)
(***************************************************************************)
CountCall(call) == call.fn = "_find_overlapping_pairs"
PairCall(call) == call.fn = "_triangles_overlap"

\* Two successive calls of _find_overlapping_pairs, on any two orders of the
\* same triangles, return the same count; and a call of _triangles_overlap on
\* (b, a) returns what the call on (a, b) before it returned.
SameOverlapAnswer ==
    /\ (CountCall(uv_call) /\ CountCall(uv_call'))
          => uv_call'.result = uv_call.result
    /\ (/\ PairCall(uv_call) /\ PairCall(uv_call')
        /\ uv_call'.args = <<uv_call.args[2], uv_call.args[1]>>)
          => uv_call'.result = uv_call.result

\* C11: uv_overlap is order-independent: every permutation of a list of UV
\* triangles gives the same overlap count from _find_overlapping_pairs, and
\* the pair test is symmetric, _triangles_overlap(a, b) = _triangles_overlap(b, a).
C11_OverlapOrderIndependent == [][SameOverlapAnswer]_vars

\* Three triangles given in another order than the asset's, of which the pair
\* (large, inside) overlaps by containment alone and the third overlaps with
\* neither.
C11_Witness ==
    /\ CountCall(uv_call)
    /\ Len(uv_tris) = 3
    /\ uv_call.args[1] # uv_tris
    /\ uv_tris[1] = <<<<4, 4>>, <<8, 4>>, <<4, 8>>>>
    /\ uv_tris[2] = <<<<64, 64>>, <<72, 64>>, <<64, 72>>>>
    /\ uv_tris[3] = <<<<0, 0>>, <<32, 0>>, <<0, 32>>>>
    /\ uv_call.result = 1

\* The point lies strictly inside the triangle: on one side of all three edges.
StrictlyInside(pt, tri) ==
    LET d0 == _cross_2d(tri[1], tri[2], pt)
        d1 == _cross_2d(tri[2], tri[3], pt)
        d2 == _cross_2d(tri[3], tri[1], pt)
    IN  (d0 > 0 /\ d1 > 0 /\ d2 > 0) \/ (d0 < 0 /\ d1 < 0 /\ d2 < 0)

\* The whole coordinates between the least and the greatest coordinate k of
\* the two triangles.
CoordinateSpan(t1, t2, k) ==
    LET cs == {t1[i][k] : i \in 1..3} \cup {t2[i][k] : i \in 1..3}
    IN  (CHOOSE x \in cs : \A y \in cs : x <= y)..(CHOOSE x \in cs : \A y \in cs : x >= y)

\* Some point with whole coordinates lies strictly inside both triangles, so
\* that they have interior area in common.
ShareInterior(t1, t2) ==
    \E x \in CoordinateSpan(t1, t2, 1), y \in CoordinateSpan(t1, t2, 2) :
        StrictlyInside(<<x, y>>, t1) /\ StrictlyInside(<<x, y>>, t2)

\* C23: _triangles_overlap returns True for every pair of UV triangles that
\* share interior area, whatever the vertex order inside each triangle: the
\* nine proper edge-crossing tests plus the two first-vertex containment
\* tests miss no pair with common interior.
C23_OverlapComplete ==
    (PairCall(uv_call) /\ ShareInterior(uv_call.args[1], uv_call.args[2]))
        => uv_call.result = TRUE

\* The nodes reached from the nodes S along links, S included.
RECURSIVE ReachedFrom(_, _)
ReachedFrom(S, node_tree) ==
    LET T == S \cup {l.to_node : l \in {x \in Range(node_tree.links) : x.from_node \in S}}
    IN  IF T = S THEN S ELSE ReachedFrom(T, node_tree)

\* Some node is reached from itself along one link or more.
HasDirectedCycle(node_tree) ==
    \E n \in Range(node_tree.nodes) :
        n \in ReachedFrom({l.to_node : l \in {x \in Range(node_tree.links) : x.from_node = n}},
                          node_tree)

\* C25: _detect_cycles returns True if and only if the links of the node tree
\* form a directed cycle, a self-link included, in whatever order nodes and
\* links are listed; on an acyclic tree it returns False, also when a node
\* is reached by several paths.
C25_CycleDetectionExact ==
    cyc_call # NoCall => (cyc_call.result <=> HasDirectedCycle(cyc_tree))

\* An acyclic tree with a node that two paths lead to, where the node at the
\* start of both paths is listed last.
C25_Witness ==
    /\ cyc_call # NoCall
    /\ cyc_call.result = FALSE
    /\ Len(cyc_tree.nodes) = 3
    /\ \E a, b, c \in Range(cyc_tree.nodes) :
          /\ a # b /\ b # c /\ a # c
          /\ cyc_tree.nodes[3] = a
          /\ cyc_tree.links = <<Link(a, c), Link(a, b), Link(b, c)>>

\* The unordered pairs of positions in the list whose triangles
\* _triangles_overlap takes to overlap.
OverlappingIndexPairs(triangles) ==
    {pair \in (DOMAIN triangles) \X (DOMAIN triangles) :
        /\ pair[1] < pair[2]
        /\ _triangles_overlap(triangles[pair[1]], triangles[pair[2]])}

\* C28: spatial hashing does not change the overlap result: for every list of
\* UV triangles _find_overlapping_pairs returns the number of unordered
\* index pairs for which _triangles_overlap is True, each counted once
\* however many grid cells the two share, and none skipped for sharing no
\* cell.
C28_HashingExact ==
    CountCall(uv_call)
        => uv_call.result = Cardinality(OverlappingIndexPairs(uv_call.args[1]))

(***************************************************************************)
(* Claims about the armature engine                                        *)
(***************************************************************************)
ArmChecked == stage_result.name = "armature"
ArmCheckNames == [i \in DOMAIN stage_result.checks |-> stage_result.checks[i].name]
NoArmatureNotRequired ==
    /\ Len(stage_ctx.armatures) = 0
    /\ stage_config.category \notin stage_config.categories_requiring_armature

\* C7: check_armature returns stage SKIPPED with the single check
\* (armature_present, SKIPPED), without reading the skinned meshes, if and only
\* if there is no armature object and the category does not require one; in
\* every other case it returns the five checks armature_present, bone_count,
\* bone_naming, vertex_weights, bone_hierarchy and a status of PASS or FAIL.
C7_ArmatureEarlyExit ==
    ArmChecked =>
        IF NoArmatureNotRequired
        THEN /\ stage_result.status = "SKIPPED"
             /\ Len(stage_result.checks) = 1
             /\ stage_result.checks[1].name = "armature_present"
             /\ stage_result.checks[1].status = "SKIPPED"
             /\ ~skinned_read
        ELSE /\ stage_result.status \in {"PASS", "FAIL"}
             /\ ArmCheckNames = <<"armature_present", "bone_count", "bone_naming",
                                  "vertex_weights", "bone_hierarchy">>
             /\ skinned_read

C7_Witness ==
    /\ ArmChecked
    /\ stage_result.status = "SKIPPED"
    /\ Len(stage_result.checks) = 1
    /\ ~skinned_read
    /\ stage_ctx.skinned_meshes # <<>>
    /\ stage_config.bone_naming_pattern # NoPattern

HierarchyChecks ==
    LET IsHierarchy(c) == c.name = "bone_hierarchy"
    IN  SelectSeq(stage_result.checks, IsHierarchy)

\* The bones of an armature that have no parent.
RootsOf(arm) == {b \in DOMAIN arm : arm[b].parent = 0}

\* max(R - 1, 0) for the R roots of an armature.
OrphansOf(arm) ==
    IF Cardinality(RootsOf(arm)) - 1 > 0 THEN Cardinality(RootsOf(arm)) - 1 ELSE 0

\* C22: bone_hierarchy: a bone is a root iff its parent is None; each
\* armature with R roots contributes max(R-1, 0) orphans; orphan_count is the
\* sum over all armatures and root_count the total number of roots; the check
\* is FAIL iff orphan_count > 0, so several armatures with one root each pass
\* and an armature with zero bones contributes nothing.
C22_BoneHierarchy ==
    (ArmChecked /\ skinned_read) =>
        LET arms == stage_ctx.armatures
            roots == SumSeq([i \in DOMAIN arms |-> Cardinality(RootsOf(arms[i]))])
            orphans == SumSeq([i \in DOMAIN arms |-> OrphansOf(arms[i])])
        IN  /\ Len(HierarchyChecks) = 1
            /\ HierarchyChecks[1].measured_value.root_count = roots
            /\ HierarchyChecks[1].measured_value.orphan_count = orphans
            /\ HierarchyChecks[1].status = IF orphans > 0 THEN "FAIL" ELSE "PASS"
            /\ (\A i \in DOMAIN arms : Cardinality(RootsOf(arms[i])) <= 1)
                  => HierarchyChecks[1].status = "PASS"

\* Two armatures with one root each: two roots, no orphan, PASS
\* (test_multiple_armatures_each_with_single_root_passes).
C22_Witness ==
    /\ ArmChecked
    /\ skinned_read
    /\ stage_ctx.armatures =
          <<<<Bone("root", 0), Bone("child", 1)>>, <<Bone("root", 0)>>>>
    /\ HierarchyChecks =
          <<CheckResult("bone_hierarchy", "PASS", [root_count |-> 2, orphan_count |-> 0])>>

\* The vertices of all skinned meshes and the three counts reported.
ArmVerts == Flatten(stage_ctx.skinned_meshes)
VWCheck == stage_result.checks[4]
VWCounts == VWCheck.measured_value
VertexTotal(w) == SumSeq(w)
VertexIsZero(w) == VertexTotal(w) < ZeroWeightEps
VertexIsExcess(w) == Len(w) > stage_config.max_influences_per_vertex
VertexIsUnnormalized(w) ==
    \/ VertexTotal(w) - WeightOne > NormTolerance
    \/ WeightOne - VertexTotal(w) > NormTolerance
VWRan == ArmChecked /\ Len(stage_result.checks) = 5

\* C8 as stated: every vertex falls in at most one category (zero-weight, else
\* excess-influences, else unnormalized), so the three counts never add up to
\* more than the number of vertices, and the check is FAIL iff a count is
\* positive.
C8_Original ==
    VWRan =>
        /\ VWCounts.zero_weight_count =
              Cardinality({i \in DOMAIN ArmVerts : VertexIsZero(ArmVerts[i])})
        /\ VWCounts.excess_influences_count =
              Cardinality({i \in DOMAIN ArmVerts :
                  ~VertexIsZero(ArmVerts[i]) /\ VertexIsExcess(ArmVerts[i])})
        /\ VWCounts.unnormalized_count =
              Cardinality({i \in DOMAIN ArmVerts :
                  /\ ~VertexIsZero(ArmVerts[i])
                  /\ ~VertexIsExcess(ArmVerts[i])
                  /\ VertexIsUnnormalized(ArmVerts[i])})
        /\ VWCounts.zero_weight_count + VWCounts.excess_influences_count
              + VWCounts.unnormalized_count <= Len(ArmVerts)
        /\ (VWCheck.status = "FAIL") <=>
              \/ VWCounts.zero_weight_count > 0
              \/ VWCounts.excess_influences_count > 0
              \/ VWCounts.unnormalized_count > 0

\* C8 as amended: a vertex whose total weight is below 1e-6 counts only as
\* zero-weight; any other vertex counts as excess-influences iff its influence
\* count exceeds the budget and, independently, as unnormalized iff
\* |sum - 1.0| > 0.001, so it may count in both.  Hence zero_weight_count plus
\* either of the other two counts never exceeds the number of vertices, and
\* the check is FAIL iff one of the three counts is positive.
C8_VertexWeights ==
    VWRan =>
        /\ VWCounts.zero_weight_count =
              Cardinality({i \in DOMAIN ArmVerts : VertexIsZero(ArmVerts[i])})
        /\ VWCounts.excess_influences_count =
              Cardinality({i \in DOMAIN ArmVerts :
                  ~VertexIsZero(ArmVerts[i]) /\ VertexIsExcess(ArmVerts[i])})
        /\ VWCounts.unnormalized_count =
              Cardinality({i \in DOMAIN ArmVerts :
                  ~VertexIsZero(ArmVerts[i]) /\ VertexIsUnnormalized(ArmVerts[i])})
        /\ VWCounts.zero_weight_count + VWCounts.excess_influences_count
              <= Len(ArmVerts)
        /\ VWCounts.zero_weight_count + VWCounts.unnormalized_count
              <= Len(ArmVerts)
        /\ (VWCheck.status = "FAIL") <=>
              \/ VWCounts.zero_weight_count > 0
              \/ VWCounts.excess_influences_count > 0
              \/ VWCounts.unnormalized_count > 0

C8_Witness ==
    /\ VWRan
    /\ Len(ArmVerts) = 2
    /\ VWCounts.zero_weight_count = 1
    /\ VWCounts.excess_influences_count = 1
    /\ VWCounts.unnormalized_count = 1
    /\ VWCheck.status = "FAIL"

(***************************************************************************)
(* Claims about the texture engine                                         *)
(***************************************************************************)
TexChecked == stage_result.name = "texture"
POTCheck == stage_result.checks[3]

\* n = 2^k for some k >= 0, for n up to 2^MaxExponent.
MaxExponent == 13
IsTwoToThe(n) == \E k \in 0..MaxExponent : n = 2^k
SizeIsTwoToThe(img) == IsTwoToThe(img.size[1]) /\ IsTwoToThe(img.size[2])
SizeIsNotTwoToThe(img) == ~SizeIsTwoToThe(img)
NotTwoToThe(images) == SelectSeq(images, SizeIsNotTwoToThe)

\* C10: power_of_two lists as violations exactly the images whose width or
\* height is not of the form 2^k with k >= 0 (so 1 is accepted and 0, negative
\* and other values are rejected), in order, and is FAIL iff it lists any.
C10_PowerOfTwo ==
    TexChecked =>
        /\ POTCheck.name = "power_of_two"
        /\ POTCheck.measured_value.violations =
              [i \in DOMAIN NotTwoToThe(stage_ctx.images) |->
                  [name |-> NotTwoToThe(stage_ctx.images)[i].name,
                   size |-> NotTwoToThe(stage_ctx.images)[i].size]]
        /\ POTCheck.status =
              IF NotTwoToThe(stage_ctx.images) = <<>> THEN "PASS" ELSE "FAIL"

C10_Witness ==
    /\ TexChecked
    /\ Len(stage_ctx.images) = 2
    /\ stage_ctx.images[1].size = <<1, 8>>
    /\ stage_ctx.images[2].size = <<0, 4>>
    /\ POTCheck.status = "FAIL"
    /\ Len(POTCheck.measured_value.violations) = 1
    /\ POTCheck.measured_value.violations[1].size = <<0, 4>>

(***************************************************************************)
(* Claims about the remediation engine                                     *)
(***************************************************************************)
RemRan == rem_result # NoResult
AllChecksFail(stage1_results) ==
    \A i \in DOMAIN stage1_results :
        \A j \in DOMAIN stage1_results[i].checks :
            stage1_results[i].checks[j].status = "FAIL"

\* C5: whatever the Stage-1 results (none at all, every check FAIL, ...),
\* run_remediation returns a stage named "remediation" whose status is PASS.
C5_RemediationAlwaysPass ==
    RemRan => rem_result.name = "remediation" /\ rem_result.status = "PASS"

C5_Witness ==
    /\ RemRan
    /\ Len(rem_stage1) = 6
    /\ AllChecksFail(rem_stage1)
    /\ rem_result.fixes # <<>>
    /\ rem_result.review_flags # <<>>
    /\ rem_result.status = "PASS"

\* The fix action that answers a check, if it has one.
NoAction == "None"
FixActionFor(stage_name, check_name) ==
    CASE stage_name = "geometry" /\ check_name = "normal_consistency" -> "recalculate_normals"
      [] stage_name = "geometry" /\ check_name = "degenerate_faces" -> "merge_by_distance"
      [] stage_name = "geometry" /\ check_name = "loose_geometry" -> "merge_by_distance"
      [] stage_name = "texture" /\ check_name = "resolution_limit" -> "resize_textures"
      [] stage_name = "armature" /\ check_name = "vertex_weights" -> "limit_bone_weights"
      [] OTHER -> NoAction

Covered(stage_name, check_name) ==
    \/ \E k \in DOMAIN rem_result.fixes :
          rem_result.fixes[k].action = FixActionFor(stage_name, check_name)
    \/ \E k \in DOMAIN rem_result.review_flags :
          rem_result.review_flags[k].issue = IssueKey(stage_name, check_name)

\* C6: for every Stage-1 check whose status is FAIL, the remediation stage holds
\* a FixEntry of that check's fix action or a ReviewFlag whose issue is the
\* check's "stage:check" key.
C6_EveryFailCovered ==
    RemRan =>
        \A i \in DOMAIN rem_stage1 :
            \A j \in DOMAIN rem_stage1[i].checks :
                rem_stage1[i].checks[j].status = "FAIL"
                    => Covered(rem_stage1[i].name, rem_stage1[i].checks[j].name)

\* Stage-1 results as one pipeline run hands them over: no stage name twice,
\* and within a stage no check name twice.
OneResultPerStage(stage1_results) ==
    /\ \A i, k \in DOMAIN stage1_results :
          stage1_results[i].name = stage1_results[k].name => i = k
    /\ \A i \in DOMAIN stage1_results :
          \A j, k \in DOMAIN stage1_results[i].checks :
              stage1_results[i].checks[j].name = stage1_results[i].checks[k].name
                  => j = k

\* The rule table as the claim lists it: <<stage, check, triggering status>>.
FlagRuleTable ==
    { <<"uv", "uv_overlap", "FAIL">>,
      <<"geometry", "non_manifold", "FAIL">>,
      <<"geometry", "interior_faces", "FAIL">>,
      <<"scene", "lod_presence", "FAIL">>,
      <<"geometry", "polycount_budget", "FAIL">>,
      <<"pbr", "albedo_range", "WARNING">>,
      <<"pbr", "metalness_binary", "WARNING">>,
      <<"pbr", "roughness_range", "WARNING">>,
      <<"uv", "texel_density", "WARNING">> }

PresentWith(stage1_results, stage_name, check_name, status) ==
    \E i \in DOMAIN stage1_results :
        /\ stage1_results[i].name = stage_name
        /\ \E j \in DOMAIN stage1_results[i].checks :
              /\ stage1_results[i].checks[j].name = check_name
              /\ stage1_results[i].checks[j].status = status

FlagsWithIssue(issue) ==
    {k \in DOMAIN rem_result.review_flags : rem_result.review_flags[k].issue = issue}

NoFixTrigger(stage1_results) ==
    /\ ~NeedsNormals(stage1_results)
    /\ ~NeedsMerge(stage1_results)
    /\ ~NeedsResize(stage1_results)
    /\ ~NeedsWeightLimit(stage1_results)

\* C12: review-flag rule table.  After run_remediation on the Stage-1 results
\* of a pipeline run, the remediation stage holds exactly one flag with issue
\* "stage:check" if that check is present with its rule's triggering status
\* (FAIL for uv:uv_overlap, geometry:non_manifold, geometry:interior_faces,
\* scene:lod_presence, geometry:polycount_budget; WARNING for pbr:albedo_range,
\* pbr:metalness_binary, pbr:roughness_range, uv:texel_density) and none
\* otherwise; every flag belongs to one of these nine rules; and flags account
\* for no mutation call: there are as many calls as fix entries, and none,
\* with the scene unchanged, when no fix trigger holds.
C12_ReviewFlagTable ==
    (RemRan /\ OneResultPerStage(rem_stage1)) =>
        /\ \A rule \in FlagRuleTable :
              Cardinality(FlagsWithIssue(IssueKey(rule[1], rule[2]))) =
                  IF PresentWith(rem_stage1, rule[1], rule[2], rule[3]) THEN 1 ELSE 0
        /\ \A k \in DOMAIN rem_result.review_flags :
              \E rule \in FlagRuleTable :
                  rem_result.review_flags[k].issue = IssueKey(rule[1], rule[2])
        /\ Len(rem_calls) = Len(rem_result.fixes)
        /\ NoFixTrigger(rem_stage1) => (rem_calls = <<>> /\ rem_scene = rem_before)

\* Every check is WARNING: the four WARNING rules flag, the five FAIL rules do
\* not, and the scene, which holds meshes, images and skinned meshes, is as it
\* was.
C12_Witness ==
    /\ RemRan
    /\ rem_stage1 = Stage1From("WARNING", {})
    /\ [k \in DOMAIN rem_result.review_flags |-> rem_result.review_flags[k].issue]
          = <<"pbr:albedo_range", "pbr:metalness_binary", "pbr:roughness_range",
              "uv:texel_density">>
    /\ rem_result.fixes = <<>>
    /\ rem_calls = <<>>
    /\ Len(rem_scene.mesh_objects) = 2 /\ Len(rem_scene.images) = 2
    /\ rem_scene = rem_before

\* The limit the resize fix applies, and an image's place relative to it.
ConfiguredLimit == IF rem_config.hero_asset THEN 4096 ELSE rem_config.max_texture_resolution
WithinLimit(img) == img.size[1] <= ConfiguredLimit /\ img.size[2] <= ConfiguredLimit
ScaleCallsFor(calls, name) ==
    {k \in DOMAIN calls : calls[k].op = "scale" /\ calls[k].target = name}
ResizeFixesFor(fixes, name) ==
    {k \in DOMAIN fixes : fixes[k].action = "resize_textures" /\ fixes[k].target = name}

\* A run leaves every image alone that it found within the limit.
WithinLimitUntouched ==
    RemRan =>
        \A i \in DOMAIN rem_before.images :
            WithinLimit(rem_before.images[i]) =>
                /\ rem_scene.images[i] = rem_before.images[i]
                /\ ScaleCallsFor(rem_calls, rem_before.images[i].name) = {}
                /\ ResizeFixesFor(rem_result.fixes, rem_before.images[i].name) = {}

\* The run after one that resized image i neither scales it nor changes its size.
SecondRunKeepsSize ==
    \A i \in DOMAIN rem_before.images :
        (/\ RemRan
         /\ ~WithinLimit(rem_before.images[i])
         /\ ScaleCallsFor(rem_calls, rem_before.images[i].name) # {})
            => /\ rem_scene'.images[i] = rem_scene.images[i]
               /\ ScaleCallsFor(rem_calls', rem_scene.images[i].name) = {}

\* C9: the resize fix is idempotent.  An image whose width and height are both
\* within the limit is never scaled and gets no fix entry, also when
\* texture:resolution_limit is FAIL; and once an oversized image has been
\* resized, running remediation again does not scale it: its size stays the
\* one the first run gave it.
C9_ResizeIdempotent == [](WithinLimitUntouched) /\ [][SecondRunKeepsSize]_vars

C9_Witness ==
    /\ rem_runs = 2
    /\ NeedsResize(rem_stage1)
    /\ ~rem_config.hero_asset /\ rem_config.max_texture_resolution = 2
    /\ Len(rem_scene.images) = 2
    /\ rem_before.images[1].name = "i49x49"
    /\ rem_before.images[1].size = <<1, 1>>
    /\ rem_scene.images[1].size = <<1, 1>>
    /\ rem_scene.images[2] = RemediationImage("i1x1", <<1, 1>>)
    /\ rem_calls = <<>>

\* What the claim names as the trigger of each mutation entry point.
TriggerOf(call) ==
    CASE call.op = "recalculate_normals" ->
            PresentWith(rem_stage1, "geometry", "normal_consistency", "FAIL")
      [] call.op = "merge_by_distance" ->
            \/ PresentWith(rem_stage1, "geometry", "degenerate_faces", "FAIL")
            \/ PresentWith(rem_stage1, "geometry", "loose_geometry", "FAIL")
      [] call.op = "scale" ->
            /\ PresentWith(rem_stage1, "texture", "resolution_limit", "FAIL")
            /\ \E i \in DOMAIN rem_before.images :
                  /\ rem_before.images[i].name = call.target
                  /\ ~WithinLimit(rem_before.images[i])
      [] call.op = "limit_bone_weights" ->
            PresentWith(rem_stage1, "armature", "vertex_weights", "FAIL")
      [] OTHER -> FALSE

NoTriggerPresent ==
    /\ ~PresentWith(rem_stage1, "geometry", "normal_consistency", "FAIL")
    /\ ~PresentWith(rem_stage1, "geometry", "degenerate_faces", "FAIL")
    /\ ~PresentWith(rem_stage1, "geometry", "loose_geometry", "FAIL")
    /\ ~PresentWith(rem_stage1, "texture", "resolution_limit", "FAIL")
    /\ ~PresentWith(rem_stage1, "armature", "vertex_weights", "FAIL")

\* C13: fixes mutate only on their trigger.  Every call run_remediation makes
\* of recalculate_normals, merge_by_distance, scale or limit_bone_weights has
\* its trigger among the Stage-1 results (geometry:normal_consistency FAIL;
\* geometry:degenerate_faces or geometry:loose_geometry FAIL;
\* texture:resolution_limit FAIL and the image beyond the limit;
\* armature:vertex_weights FAIL), each part of the scene changes only under
\* its trigger, and when no trigger is present the scene is unchanged and the
\* fix list is empty.
C13_FixesOnlyOnTrigger ==
    RemRan =>
        /\ \A k \in DOMAIN rem_calls : TriggerOf(rem_calls[k])
        /\ rem_scene.mesh_objects # rem_before.mesh_objects =>
              \/ PresentWith(rem_stage1, "geometry", "degenerate_faces", "FAIL")
              \/ PresentWith(rem_stage1, "geometry", "loose_geometry", "FAIL")
        /\ \A i \in DOMAIN rem_before.images :
              rem_scene.images[i] # rem_before.images[i] =>
                  /\ PresentWith(rem_stage1, "texture", "resolution_limit", "FAIL")
                  /\ ~WithinLimit(rem_before.images[i])
        /\ rem_scene.skinned_meshes # rem_before.skinned_meshes =>
              PresentWith(rem_stage1, "armature", "vertex_weights", "FAIL")
        /\ NoTriggerPresent =>
              /\ rem_calls = <<>>
              /\ rem_scene = rem_before
              /\ rem_result.fixes = <<>>

\* Only texture:resolution_limit is FAIL, of two images one is beyond the
\* limit: that image alone is scaled, and nothing else is called.
C13_Witness ==
    /\ RemRan
    /\ rem_stage1 = Stage1From("PASS", {<<<<"texture", "resolution_limit">>, "FAIL">>})
    /\ ~rem_config.hero_asset
    /\ Len(rem_before.mesh_objects) = 2 /\ Len(rem_before.skinned_meshes) = 2
    /\ rem_before.images =
          <<RemediationImage("small", <<4, 2>>), RemediationImage("huge", <<8192, 4096>>)>>
    /\ rem_calls = <<MutationCall("scale", "huge", <<4, 2>>)>>
    /\ rem_scene.images[1] = rem_before.images[1]
    /\ rem_scene.mesh_objects = rem_before.mesh_objects
    /\ rem_scene.skinned_meshes = rem_before.skinned_meshes

(***************************************************************************)
(* Claims about run_checks                                                 *)
(***************************************************************************)
RunCalled == run_pc # "none"
RemediationStarted == rem_runs > 0
SixResults ==
    <<run_locals.geom_result, run_locals.uv_result, run_locals.tex_result,
      run_locals.pbr_result, run_locals.arm_result, run_locals.scene_result>>
SixReturned == \A i \in 1..6 : SixResults[i] # NoResult

\* Once run_remediation has been called, the six engines have returned, in
\* the order geometry, uv, texture, pbr, armature, scene, and these six
\* results are what it was given.
RemediationSawAllSix ==
    (RunCalled /\ RemediationStarted) =>
        /\ SixReturned
        /\ [i \in 1..6 |-> SixResults[i].name]
              = <<"geometry", "uv", "texture", "pbr", "armature", "scene">>
        /\ rem_stage1 = SixResults

\* The step that calls run_remediation finds the six results returned, and
\* from that step on no result is bound or changed.
ResultsFinalBeforeRemediation ==
    (RunCalled /\ rem_runs' > 0) =>
        /\ SixReturned
        /\ SixResults' = SixResults
        /\ run_locals'.stage1_results = run_locals.stage1_results

\* C14: cross-stage ordering in run_checks.  run_remediation starts only
\* after all six Stage-1 engines (geometry, uv, texture, pbr, armature, scene)
\* have returned their StageResult, it is given all six, and no Stage-1
\* result is produced or changed once it has started.
C14_RemediationAfterStage1 ==
    [](RemediationSawAllSix) /\ [][ResultsFinalBeforeRemediation]_vars

\* A run that has returned: geometry failed on flipped normals, remediation
\* recalculated them, and the six results are those it returned.
C14_Witness ==
    /\ run_pc = "done"
    /\ run_return[1] = SixResults
    /\ run_return[2] = <<rem_result>>
    /\ run_locals.geom_result.status = "FAIL"
    /\ run_locals.arm_result.status = "PASS"
    /\ \E k \in DOMAIN rem_result.fixes :
          rem_result.fixes[k].action = "recalculate_normals"
    /\ rem_result.review_flags # <<>>

\* C29: in a pipeline run, where the six Stage-1 results come from the check
\* engines and the aggregator sees them together with the remediation stage
\* computed from them, a remediation stage with fixes always coincides with
\* the overall status FAIL, and PASS_WITH_FIXES is never the verdict.
C29_FixesImplyFail ==
    Finalized =>
        /\ report.stages = SixResults \o <<rem_result>>
        /\ rem_result.fixes # <<>> => report.overall_status = "FAIL"
        /\ report.overall_status # "PASS_WITH_FIXES"

\* A reported run in which remediation made fixes and itself passed.
C29_Witness ==
    /\ Finalized
    /\ Len(report.stages) = 7
    /\ report.stages[7].name = "remediation"
    /\ report.stages[7].status = "PASS"
    /\ report.stages[7].fixes # <<>>
    /\ report.stages[7].review_flags = <<>>
    /\ report.overall_status = "FAIL"

\* The resize fixes of the last run_remediation.
ResizeFixes ==
    LET IsResize(fix) == fix.action = "resize_textures"
    IN  SelectSeq(rem_result.fixes, IsResize)

\* n is a power of two, 1 included.
IsPowerOfTwo(n) == \E e \in 0..30 : n = 2 ^ e

\* C30: for every image with a dimension above the limit (limit >= 1, width
\* and height >= 1) the size _compute_new_size gives has two powers of two
\* as dimensions, both >= 1 and <= the limit, the larger being the largest
\* power of two <= the limit; the resized image violates neither
\* resolution_limit nor power_of_two.
C30_ResizePostcondition ==
    \A k \in DOMAIN ResizeFixes :
        LET w == ResizeFixes[k].before_value[1]
            h == ResizeFixes[k].before_value[2]
            new_w == ResizeFixes[k].after_value[1]
            new_h == ResizeFixes[k].after_value[2]
            limit == ResizeLimit(rem_config)
        IN  (w >= 1 /\ h >= 1 /\ limit >= 1) =>
                /\ w > limit \/ h > limit
                /\ IsPowerOfTwo(new_w) /\ IsPowerOfTwo(new_h)
                /\ new_w <= limit /\ new_h <= limit
                /\ Max(new_w, new_h) * 2 > limit

(***************************************************************************)
(* Claims about report serialization                                       *)
(***************************************************************************)
Restored == ser_restored # None

\* C15: report serialization round-trips: for every QaReport (any number of
\* stages, checks, fixes and flags, performance and export present or
\* absent), QaReport.from_dict(report.to_dict()) equals the original report
\* field for field.
C15_RoundTrip ==
    Restored =>
        /\ ser_restored.metadata = ser_report.metadata
        /\ ser_restored.overall_status = ser_report.overall_status
        /\ ser_restored.stages = ser_report.stages
        /\ ser_restored.performance = ser_report.performance
        /\ ser_restored.export = ser_report.export

\* A report of two stages with checks, fixes and flags, with export and
\* without performance, has been restored.
C15_Witness ==
    /\ Restored
    /\ Len(ser_report.stages) = 2
    /\ Len(ser_report.stages[1].checks) = 2
    /\ ser_report.stages[1].checks[1].status = "CheckStatus.WARNING"
    /\ ser_dict.stages[1].checks[1].status = "WARNING"
    /\ Len(ser_report.stages[2].fixes) = 2
    /\ Len(ser_report.stages[2].review_flags) = 3
    /\ ser_report.performance = None
    /\ ser_report.export # None
    /\ ser_restored.export = ser_report.export

(***************************************************************************)
(* Claims about intake                                                     *)
(***************************************************************************)
AssetIdOf(i) == intake_reports[i].metadata.asset_id

\* C16: every run_intake call generates a fresh asset_id: over any sequence
\* of intake runs, including repeated runs on the same file with the same
\* config, no two returned reports carry the same metadata.asset_id, and the
\* id is non-empty also when the intake stage is FAIL.
C16_FreshAssetId ==
    /\ \A i, j \in DOMAIN intake_reports : AssetIdOf(i) = AssetIdOf(j) => i = j
    /\ \A i \in DOMAIN intake_reports : AssetIdOf(i) # ""

\* Two runs on the same missing file at the same clock reading: both stages
\* are FAIL, the reports agree in everything but the asset id.
C16_Witness ==
    /\ Len(intake_reports) = 2
    /\ intake_reports[1].stages[1].status = "FAIL"
    /\ intake_reports[1].overall_status = "FAIL"
    /\ intake_reports[1].stages[1].checks[2] =
          CheckResult("file_exists", "FAIL", "missing.fbx")
    /\ intake_reports[2].stages = intake_reports[1].stages
    /\ intake_reports[2].metadata.processing_timestamp
          = intake_reports[1].metadata.processing_timestamp
    /\ AssetIdOf(1) # AssetIdOf(2)

=============================================================================
